---- MODULE Spec2Model ----
(***************************************************************************)
(* A model of the amount-conversion, validation, escrow-snapshot and       *)
(* fill-bounds logic of the DecentraGuild p2p escrow client.               *)
(*                                                                         *)
(* Representation.                                                         *)
(*   - A JavaScript string is a sequence of one-character strings.         *)
(*   - A BigInt is a natural number.                                       *)
(*   - A JavaScript Number is an exact rational <<n, d>> in lowest terms   *)
(*     with d > 0; NaN is <<0, 0>>.  The inputs below are short decimals   *)
(*     and the prices are powers of two, for which the IEEE-754 results of *)
(*     the operations used agree with the exact ones.                      *)
(*   - A nullable object is a sequence of length 0 (null) or 1.            *)
(***************************************************************************)
EXTENDS Integers, Sequences, FiniteSets, TLC

VARIABLES
    \* pure-function harness (formatters.js / validators.js)
    cvIn,       \* the amount string handed to the function
    cvDec,      \* the decimals count handed to the function
    cvOp,       \* which function has been applied ("init" before any)
    cvRaw,      \* result of toSmallestUnits
    cvNum,      \* result of fromSmallestUnits(toSmallestUnits(..))
    cvVal,      \* result of validateAmount
    cvOut       \* result of formatDecimals

VARIABLES acct, now, wallet, view, loads, balPending, costPending, exchange, tx
convVars == <<cvIn, cvDec, cvOp, cvRaw, cvNum, cvVal, cvOut>>
VARIABLES escrows, loadingEscrows, escrowsError, escrowsPending
storeVars == <<escrows, loadingEscrows, escrowsError, escrowsPending>>
detailVars == <<acct, now, wallet, view, loads, balPending, costPending, exchange, tx>>

VARIABLES
    \* the create-escrow form of the escrow store
    offerToken,         \* null (<<>>) or <<token>>
    offerAmount,        \* always a string
    requestToken,
    requestAmount,
    settings,
    errorsForm,         \* errors.form: a set of <<field, message>>
    errorsTransaction,  \* errors.transaction
    initCall            \* the initializeEscrow call made by the latest step:
                        \* <<>> or <<params>>
formVars == <<offerToken, offerAmount, requestToken, requestAmount, settings,
              errorsForm, errorsTransaction, initCall>>

VARIABLES
    \* the transaction-cost estimator and the cost panel of the create view
    fees,               \* the fee table TRANSACTION_COSTS
    ataExists,          \* the <<mint, owner>> pairs with a token account on chain
    costCalls,          \* the calls of calculate...Costs that have not returned
    costSeq,            \* how many such calls have been made
    costResult,         \* the outcome of the call that returned last, <<>> if none
    costBreakdown,      \* the create view's costBreakdown: null (<<>>) or <<breakdown>>
    loadingCosts
costVars == <<fees, ataExists, costCalls, costSeq, costResult, costBreakdown, loadingCosts>>

VARIABLES
    \* one call of fetchTokenInfo(mint) of the token registry composable
    tiEntry,            \* the registry's entry for the mint: <<>> or <<[decimals |-> ..]>>
    tiResolves,         \* whether TokenListProvider.resolve() succeeds
    tiChain,            \* the decimals of the mint account on chain: <<n>>, or <<>>
                        \* when the lookup fails or the account is not a parsed mint
    tiPc,               \* where the call stands
    tiRegistryToken,    \* the local registryToken: <<>> (undefined) or <<token>>
    tiInfo              \* the TokenInfo returned: <<>> before the return
registryVars == <<tiEntry, tiResolves, tiChain, tiPc, tiRegistryToken, tiInfo>>

VARIABLES
    \* one call of retryWithBackoff(fn, maxRetries) of metaplex.js
    rbMaxRetries,       \* the argument maxRetries
    rbAttempt,          \* the loop variable attempt
    rbPc,               \* "await" (fn in flight), "sleep" (backoff timer set),
                        \* "returned", "threw"
    rbClock,            \* the time in milliseconds since the call
    rbWake,             \* when the backoff timer is due
    rbCalls,            \* the times at which fn was called, in order
    rbErrors,           \* the rejections of fn: [at |-> time, error |-> e], in order
    rbThrown            \* the error retryWithBackoff threw: <<>> or <<e>>
retryVars == <<rbMaxRetries, rbAttempt, rbPc, rbClock, rbWake, rbCalls, rbErrors, rbThrown>>

VARIABLES
    \* the detail view across route changes: which escrow it holds
    rtMounted,          \* whether onMounted has run
    rtId,               \* route.params.id: "" when missing
    rtEscrow,           \* escrow.value: <<>> (null) or <<id of the escrow held>>
    rtError,            \* error.value
    rtLoading,          \* loading.value
    rtCalls,            \* the loadEscrow calls that await: [seq, id, stage]
    rtSeq               \* how many calls of loadEscrow went past the id checks
routeVars == <<rtMounted, rtId, rtEscrow, rtError, rtLoading, rtCalls, rtSeq>>

VARIABLES
    \* one RateLimiter of metaplex.js and the calls of execute() made on it
    rlQueue,            \* this.queue: entries [fn, promise], oldest first
    rlProcessing,       \* this.processing
    rlLast,             \* this.lastRequestTime
    rlClock,            \* Date.now()
    rlLoops,            \* one record per call of processQueue, in call order:
                        \* pc is "returned", "wait", "run", "done" or "crashed"
    rlStarts,           \* the functions started, in order: [fn |-> id, at |-> time]
    rlSettled           \* per promise: how and by which function's outcome it was
                        \* settled, if it was
limiterVars == <<rlQueue, rlProcessing, rlLast, rlClock, rlLoops, rlStarts, rlSettled>>

VARIABLES
    \* one useWalletBalances({ autoFetch: true }) and the wallet it watches
    wbConnected,        \* connected.value of useWallet()
    wbPublicKey,        \* publicKey.value: <<>> (null) or <<wallet>>
    wbBalances,         \* balances.value: tokens [mint, call, named], where call
                        \* is the fetchBalances call whose RPC answer holds the token
    wbLoading,          \* loading.value
    wbLoadingMetadata,  \* loadingMetadata.value
    wbCalls             \* one record per fetchBalances call that went past the
                        \* connection check, in call order: the wallet address it
                        \* read, pc ("rpc" while Promise.all is awaited, then
                        \* "done"), tokensWithMetadata, the indices whose
                        \* metadata request is in flight, whether the .then
                        \* continuation is queued and whether the 100 ms timer is set
balanceVars == <<wbConnected, wbPublicKey, wbBalances, wbLoading, wbLoadingMetadata, wbCalls>>

serviceVars == <<registryVars, retryVars, routeVars, limiterVars, balanceVars>>

vars == <<convVars, serviceVars, detailVars, storeVars, formVars, costVars>>
outsideConv == <<serviceVars, detailVars, storeVars, formVars, costVars>>
outsideDetail == <<convVars, serviceVars, storeVars, formVars, costVars>>
outsideForm == <<convVars, serviceVars, detailVars, costVars>>
outsideServices == <<convVars, detailVars, storeVars, formVars, costVars>>
\* what the actions of one service leave alone
outsideRegistry == <<outsideServices, retryVars, routeVars, limiterVars, balanceVars>>
outsideRetry == <<outsideServices, registryVars, routeVars, limiterVars, balanceVars>>
outsideRoute == <<outsideServices, registryVars, retryVars, limiterVars, balanceVars>>
outsideLimiter == <<outsideServices, registryVars, retryVars, routeVars, balanceVars>>
outsideBalance == <<outsideServices, registryVars, retryVars, routeVars, limiterVars>>

----------------------------------------------------------------------------
(* Bounds of the model *)

MaxDecimals == 2
MaxIntDigits == 2
MaxFracDigits == 3
MaxTime == 2

----------------------------------------------------------------------------
(* Strings *)

DigitChars == {"0", "1", "2", "3", "4", "5", "6", "7", "8", "9"}

DigitOf(c) ==
    CASE c = "0" -> 0 [] c = "1" -> 1 [] c = "2" -> 2 [] c = "3" -> 3
      [] c = "4" -> 4 [] c = "5" -> 5 [] c = "6" -> 6 [] c = "7" -> 7
      [] c = "8" -> 8 [] c = "9" -> 9

DigitChar(n) == <<"0", "1", "2", "3", "4", "5", "6", "7", "8", "9">>[n + 1]

AllDigits(s) == \A i \in 1..Len(s) : s[i] \in DigitChars

RECURSIVE StrToNat(_)
StrToNat(s) ==
    IF s = <<>> THEN 0
    ELSE StrToNat(SubSeq(s, 1, Len(s) - 1)) * 10 + DigitOf(s[Len(s)])

\* Number.prototype.toString / BigInt.prototype.toString of a natural number
RECURSIVE NatToStr(_)
NatToStr(n) ==
    IF n < 10 THEN <<DigitChar(n)>>
    ELSE NatToStr(n \div 10) \o <<DigitChar(n % 10)>>

RECURSIVE Repeat(_, _)
Repeat(c, k) == IF k <= 0 THEN <<>> ELSE <<c>> \o Repeat(c, k - 1)

\* String.prototype.padEnd(n, c) and padStart(n, c)
PadEnd(s, n, c) == s \o Repeat(c, n - Len(s))
PadStart(s, n, c) == Repeat(c, n - Len(s)) \o s

\* String.prototype.slice(a, b): a negative index counts from the end
\* (and -0 is 0, the start)
SliceIndex(s, i) ==
    IF i < 0 THEN (IF Len(s) + i < 0 THEN 0 ELSE Len(s) + i)
    ELSE (IF i > Len(s) THEN Len(s) ELSE i)

Slice(s, a, b) == SubSeq(s, SliceIndex(s, a) + 1, SliceIndex(s, b))

SliceFrom(s, a) == SubSeq(s, SliceIndex(s, a) + 1, Len(s))

Includes(s, c) == \E i \in 1..Len(s) : s[i] = c

\* index of the first occurrence of c in s, or Len(s) + 1
FirstIndex(s, c) ==
    IF Includes(s, c) THEN CHOOSE i \in 1..Len(s) :
                               s[i] = c /\ \A j \in 1..(i - 1) : s[j] # c
    ELSE Len(s) + 1

\* String.prototype.split(c)
RECURSIVE Split(_, _)
Split(s, c) ==
    IF ~Includes(s, c) THEN <<s>>
    ELSE <<SubSeq(s, 1, FirstIndex(s, c) - 1)>>
           \o Split(SubSeq(s, FirstIndex(s, c) + 1, Len(s)), c)

\* the longest prefix of s made of digits
DigitPrefix(s) ==
    LET k == CHOOSE k \in 0..Len(s) :
                 /\ \A i \in 1..k : s[i] \in DigitChars
                 /\ (k < Len(s) => s[k + 1] \notin DigitChars)
    IN  SubSeq(s, 1, k)

----------------------------------------------------------------------------
(* Numbers *)

NaN == <<0, 0>>
IsNaN(x) == x[2] = 0

RECURSIVE Gcd(_, _)
Gcd(a, b) == IF b = 0 THEN a ELSE Gcd(b, a % b)

Abs(i) == IF i < 0 THEN -i ELSE i

Pow10(k) == <<1, 10, 100, 1000, 10000, 100000, 1000000, 10000000,
              100000000, 1000000000>>[k + 1]

\* the rational n/d in lowest terms (d > 0)
Rat(n, d) ==
    LET g == Gcd(Abs(n), d) IN <<n \div g, d \div g>>

Num(i) == <<i, 1>>
Zero == <<0, 1>>

\* products are formed after cancelling across, which keeps them small
Mul(x, y) ==
    IF IsNaN(x) \/ IsNaN(y) THEN NaN
    ELSE LET g1 == Gcd(Abs(x[1]), y[2])
             g2 == Gcd(Abs(y[1]), x[2])
         IN  Rat((x[1] \div g1) * (y[1] \div g2), (x[2] \div g2) * (y[2] \div g1))

\* x / y for y > 0 (the view never divides by 0)
Div(x, y) == IF IsNaN(x) \/ IsNaN(y) \/ y[1] <= 0 THEN NaN ELSE Mul(x, <<y[2], y[1]>>)

Sub(x, y) ==
    IF IsNaN(x) \/ IsNaN(y) THEN NaN
    ELSE LET g == Gcd(x[2], y[2])
         IN  Rat(x[1] * (y[2] \div g) - y[1] * (x[2] \div g), x[2] * (y[2] \div g))

\* the sign of a/b - c/d for a, c >= 0 and b, d > 0, by comparing integer
\* parts and then the reciprocals of the fractional parts
RECURSIVE CmpFrac(_, _, _, _)
CmpFrac(a, b, c, d) ==
    LET q1 == a \div b
        q2 == c \div d
        r1 == a % b
        r2 == c % d
    IN  IF q1 < q2 THEN -1
        ELSE IF q1 > q2 THEN 1
        ELSE IF r1 = 0 /\ r2 = 0 THEN 0
        ELSE IF r1 = 0 THEN -1
        ELSE IF r2 = 0 THEN 1
        ELSE CmpFrac(d, r2, b, r1)

Cmp(x, y) ==
    IF x[1] < 0 /\ y[1] >= 0 THEN -1
    ELSE IF x[1] >= 0 /\ y[1] < 0 THEN 1
    ELSE IF x[1] < 0 THEN CmpFrac(-y[1], y[2], -x[1], x[2])
    ELSE CmpFrac(x[1], x[2], y[1], y[2])

\* comparisons; every comparison with NaN is false
Lt(x, y) == ~IsNaN(x) /\ ~IsNaN(y) /\ Cmp(x, y) < 0
Le(x, y) == ~IsNaN(x) /\ ~IsNaN(y) /\ Cmp(x, y) <= 0
Gt(x, y) == Lt(y, x)
Ge(x, y) == Le(y, x)

\* Math.min / Math.max
MathMin(x, y) == IF IsNaN(x) \/ IsNaN(y) THEN NaN ELSE IF Le(x, y) THEN x ELSE y
MathMax(x, y) == IF IsNaN(x) \/ IsNaN(y) THEN NaN ELSE IF Le(x, y) THEN y ELSE x

\* Math.floor of a number, as an integer
FloorInt(x) == x[1] \div x[2]
MathFloor(x) == IF IsNaN(x) THEN NaN ELSE Num(FloorInt(x))

\* Number.isInteger
IsInteger(x) == ~IsNaN(x) /\ x[2] = 1

\* parseFloat: the longest prefix that is a decimal literal, NaN if none
ParseFloat(s) ==
    LET ip   == DigitPrefix(s)
        rest == SubSeq(s, Len(ip) + 1, Len(s))
        fp   == IF rest # <<>> /\ rest[1] = "."
                THEN DigitPrefix(SubSeq(rest, 2, Len(rest))) ELSE <<>>
    IN  IF ip = <<>> /\ fp = <<>> THEN NaN
        ELSE Rat(StrToNat(ip) * Pow10(Len(fp)) + StrToNat(fp), Pow10(Len(fp)))

\* the first k fractional digits of rem/den (rem < den) as a number, with the
\* remainder left over: <<digits, remainder>>
RECURSIVE LongDiv(_, _, _)
LongDiv(rem, den, k) ==
    IF k = 0 THEN <<0, rem>>
    ELSE LET d    == (rem * 10) \div den
             r    == (rem * 10) % den
             rest == LongDiv(r, den, k - 1)
         IN  <<d * Pow10(k - 1) + rest[1], rest[2]>>

\* Number.prototype.toFixed(k) of x >= 0: x * 10^k rounded to the nearest
\* integer (the larger one at a tie), printed with k fractional digits
ToFixed(x, k) ==
    LET ip     == x[1] \div x[2]
        ld     == LongDiv(x[1] % x[2], x[2], k)
        n      == ip * Pow10(k) + ld[1] + (IF 2 * ld[2] >= x[2] THEN 1 ELSE 0)
        digits == PadStart(NatToStr(n), k + 1, "0")
    IN  IF k = 0 THEN digits
        ELSE SubSeq(digits, 1, Len(digits) - k) \o <<".">>
               \o SubSeq(digits, Len(digits) - k + 1, Len(digits))

\* the fractional digits of rem/den, at most k of them, without trailing zeros
RECURSIVE FracExpansion(_, _, _)
FracExpansion(rem, den, k) ==
    IF rem = 0 \/ k = 0 THEN <<>>
    ELSE <<DigitChar((rem * 10) \div den)>>
           \o FracExpansion((rem * 10) % den, den, k - 1)

\* Number.prototype.toString of x >= 0 (x >= 1e-6, so no exponent is printed)
NumToString(x) ==
    IF IsNaN(x) THEN <<"N", "a", "N">>
    ELSE IF x[2] = 1 THEN NatToStr(x[1])
    ELSE NatToStr(x[1] \div x[2]) \o <<".">>
           \o FracExpansion(x[1] % x[2], x[2], 16)

----------------------------------------------------------------------------
(* formatters.js: the fixed-point amount converter *)

\* BigInt(string): a SyntaxError unless the string is all digits ("" is 0n)
BigIntOf(s) ==
    IF AllDigits(s) THEN [threw |-> FALSE, value |-> StrToNat(s)]
    ELSE [threw |-> TRUE, value |-> 0]

\* mutant: the padded fraction is not cut back to `decimals` digits
ToSmallestUnitsNoSlice(amount, decimals) ==
    IF amount = <<>> \/ amount = <<"0">> THEN [threw |-> FALSE, value |-> 0]
    ELSE LET parts         == Split(amount, ".")
             integerPart   == parts[1]
             decimalPart   == IF Len(parts) >= 2 THEN parts[2] ELSE <<>>
             paddedDecimal == PadEnd(decimalPart, decimals, "0")
         IN  BigIntOf(integerPart \o paddedDecimal)

ToSmallestUnits(amount, decimals) ==
    IF amount = <<>> \/ amount = <<"0">> THEN [threw |-> FALSE, value |-> 0]
    ELSE LET parts         == Split(amount, ".")
             integerPart   == parts[1]
             decimalPart   == IF Len(parts) >= 2 THEN parts[2] ELSE <<>>
             paddedDecimal == Slice(PadEnd(decimalPart, decimals, "0"), 0, decimals)
             fullAmount    == integerPart \o paddedDecimal
         IN  BigIntOf(fullAmount)

FromSmallestUnits(amount, decimals) ==
    IF amount = <<>> \/ amount = <<"0">> THEN Zero
    ELSE LET padded      == PadStart(amount, decimals + 1, "0")
             sliced      == Slice(padded, 0, -decimals)
             integerPart == IF sliced = <<>> THEN <<"0">> ELSE sliced
             decimalPart == SliceFrom(padded, -decimals)
         IN  ParseFloat(integerPart \o <<".">> \o decimalPart)

\* mutant: a fraction of zeros is printed at the precision of the band
FormatDecimalsNoCollapse(value) ==
    IF IsNaN(value) \/ value = Zero THEN <<"0">>
    ELSE LET absValue  == <<Abs(value[1]), value[2]>>
             sign      == IF value[1] < 0 THEN <<"-">> ELSE <<>>
             decimals  == IF Lt(absValue, Num(1)) THEN 6
                          ELSE IF Lt(absValue, Num(10)) THEN 4
                          ELSE IF Lt(absValue, Num(100)) THEN 2
                          ELSE IF Lt(absValue, Num(1000)) THEN 1
                          ELSE 0
         IN  sign \o ToFixed(absValue, decimals)

\* formatDecimals(value)
FormatDecimals(value) ==
    IF IsNaN(value) \/ value = Zero THEN <<"0">>
    ELSE LET absValue  == <<Abs(value[1]), value[2]>>
             sign      == IF value[1] < 0 THEN <<"-">> ELSE <<>>
             decimals  == IF Lt(absValue, Num(1)) THEN 6
                          ELSE IF Lt(absValue, Num(10)) THEN 4
                          ELSE IF Lt(absValue, Num(100)) THEN 2
                          ELSE IF Lt(absValue, Num(1000)) THEN 1
                          ELSE 0
             formatted == ToFixed(absValue, decimals)
             parts     == Split(formatted, ".")
         IN  IF /\ decimals > 0
                /\ Len(parts) = 2
                /\ Len(parts[2]) > 0
                /\ \A i \in 1..Len(parts[2]) : parts[2][i] = "0"
             THEN sign \o ToFixed(absValue, 1)
             ELSE sign \o formatted

----------------------------------------------------------------------------
(* validators.js *)

WholeNumberError == "This token does not support decimals. Please enter a whole number."

\* mutant: the whole-number block is guarded by `if (decimals)`, which a
\* decimals count of 0 does not pass
ValidateAmountFalsyDecimals(amount, min, max, balance, decimals) ==
    LET numAmount == ParseFloat(amount)
        parts     == Split(amount, ".")
        decimalPart == IF Len(parts) >= 2 THEN parts[2] ELSE <<>>
        checked   == decimals # <<>> /\ decimals # <<0>>
    IN  IF amount = <<>> THEN [valid |-> FALSE, error |-> "Amount is required"]
        ELSE IF IsNaN(numAmount)
             THEN [valid |-> FALSE, error |-> "Invalid amount format"]
        ELSE IF /\ checked
                /\ \/ \E i \in 1..Len(decimalPart) : decimalPart[i] # "0"
                   \/ ~IsInteger(numAmount)
             THEN [valid |-> FALSE,
                   error |-> "This token does not support decimals. Please enter a whole number."]
        ELSE IF Lt(numAmount, min)
             THEN [valid |-> FALSE, error |-> "Amount must be at least min"]
        ELSE IF max # <<>> /\ Gt(numAmount, max[1])
             THEN [valid |-> FALSE, error |-> "Amount cannot exceed max"]
        ELSE IF balance # <<>> /\ Gt(numAmount, balance[1])
             THEN [valid |-> FALSE, error |-> "Insufficient balance"]
        ELSE [valid |-> TRUE, error |-> "null"]

\* validateAmount(amount, {min, max, balance, decimals}) for a string amount;
\* max, balance and decimals are null (<<>>) or <<value>>
ValidateAmount(amount, min, max, balance, decimals) ==
    LET amountStr == amount
        numAmount == ParseFloat(amount)
        parts     == Split(amountStr, ".")
        decimalPart == IF Len(parts) >= 2 THEN parts[2] ELSE <<>>
    IN  IF amount = <<>> THEN [valid |-> FALSE, error |-> "Amount is required"]
        ELSE IF IsNaN(numAmount)
             THEN [valid |-> FALSE, error |-> "Invalid amount format"]
        ELSE IF /\ decimals = <<0>>
                /\ Includes(amountStr, ".")
                /\ Len(decimalPart) > 0
                /\ \E i \in 1..Len(decimalPart) : decimalPart[i] # "0"
             THEN [valid |-> FALSE, error |-> WholeNumberError]
        ELSE IF decimals = <<0>> /\ ~IsInteger(numAmount)
             THEN [valid |-> FALSE, error |-> WholeNumberError]
        ELSE IF Lt(numAmount, min)
             THEN [valid |-> FALSE, error |-> "Amount must be at least min"]
        ELSE IF max # <<>> /\ Gt(numAmount, max[1])
             THEN [valid |-> FALSE, error |-> "Amount cannot exceed max"]
        ELSE IF balance # <<>> /\ Gt(numAmount, balance[1])
             THEN [valid |-> FALSE, error |-> "Insufficient balance"]
        ELSE [valid |-> TRUE, error |-> "null"]

----------------------------------------------------------------------------
(* The converter and validator applied to bounded inputs *)

InputDigits == {"0", "1", "5", "9"}

RECURSIVE DigitStrings(_)
DigitStrings(k) ==
    IF k = 0 THEN {<<>>}
    ELSE LET shorter == DigitStrings(k - 1)
         IN  shorter \cup {s \o <<c>> : s \in {t \in shorter : Len(t) = k - 1},
                                         c \in InputDigits}

\* amounts as typed: digits, optionally a point and more digits
AmountStrings ==
    LET ints  == DigitStrings(MaxIntDigits)
        fracs == DigitStrings(MaxFracDigits)
    IN  ints \cup {i \o <<".">> \o f : i \in ints, f \in fracs}

NoRaw == [threw |-> FALSE, value |-> 0]
NoVal == [valid |-> FALSE, error |-> "none"]

\* the converter harness is not in use
ConvParked ==
    /\ cvIn = <<>>
    /\ cvDec = 0
    /\ cvOp = "parked"
    /\ cvRaw = NoRaw
    /\ cvNum = Zero
    /\ cvVal = NoVal
    /\ cvOut = <<>>

\* the detail view is not mounted
DetailViewParked ==
    /\ acct = <<>>
    /\ now = 0
    /\ view = <<>>
    /\ loads = 0
    /\ balPending = FALSE
    /\ costPending = FALSE
    /\ exchange = "parked"
    /\ tx = <<>>

DetailParked == DetailViewParked /\ wallet = "null"

\* the settings of a fresh form (whitelistAddresses, always empty, is left out)
InitialSettings ==
    [direct |-> FALSE, directAddress |-> "", whitelist |-> FALSE, expire |-> FALSE,
     expireDate |-> <<>>, partialFill |-> FALSE, slippage |-> 1]

InitialAmount == <<"0", ".", "0", "0">>

\* the store as defineStore builds it: nothing loaded, an empty form
StoreInit ==
    /\ escrows = <<>>
    /\ loadingEscrows = FALSE
    /\ escrowsError = "null"
    /\ escrowsPending = {}
    /\ offerToken = <<>>
    /\ offerAmount = InitialAmount
    /\ requestToken = <<>>
    /\ requestAmount = InitialAmount
    /\ settings = InitialSettings
    /\ errorsForm = {}
    /\ errorsTransaction = "null"
    /\ initCall = <<>>

\* no cost estimate is in use
CostParked ==
    /\ fees = <<>>
    /\ ataExists = {}
    /\ costCalls = {}
    /\ costSeq = 0
    /\ costResult = <<>>
    /\ costBreakdown = <<>>
    /\ loadingCosts = FALSE

\* no call of fetchTokenInfo is in progress
RegistryParked ==
    /\ tiEntry = <<>>
    /\ tiResolves = TRUE
    /\ tiChain = <<>>
    /\ tiPc = "parked"
    /\ tiRegistryToken = <<>>
    /\ tiInfo = <<>>

\* no call of retryWithBackoff is in progress
RetryParked ==
    /\ rbMaxRetries = 0
    /\ rbAttempt = 0
    /\ rbPc = "parked"
    /\ rbClock = 0
    /\ rbWake = 0
    /\ rbCalls = <<>>
    /\ rbErrors = <<>>
    /\ rbThrown = <<>>

\* no detail view is followed across route changes
RouteParked ==
    /\ rtMounted = FALSE
    /\ rtId = ""
    /\ rtEscrow = <<>>
    /\ rtError = "null"
    /\ rtLoading = TRUE
    /\ rtCalls = {}
    /\ rtSeq = 0

\* no RateLimiter is in use
LimiterParked ==
    /\ rlQueue = <<>>
    /\ rlProcessing = FALSE
    /\ rlLast = 0
    /\ rlClock = 0
    /\ rlLoops = <<>>
    /\ rlStarts = <<>>
    /\ rlSettled = <<>>

\* no wallet is connected and no balance was ever fetched
BalancesParked ==
    /\ wbConnected = FALSE
    /\ wbPublicKey = <<>>
    /\ wbBalances = <<>>
    /\ wbLoading = FALSE
    /\ wbLoadingMetadata = FALSE
    /\ wbCalls = <<>>

\* the services outside the views are idle
ServicesParked == RegistryParked /\ RetryParked /\ RouteParked /\ LimiterParked /\ BalancesParked

ConvInit ==
    /\ ServicesParked
    /\ DetailParked
    /\ StoreInit
    /\ CostParked
    /\ cvIn \in AmountStrings
    /\ cvDec \in 0..MaxDecimals
    /\ cvOp = "init"
    /\ cvRaw = NoRaw
    /\ cvNum = Zero
    /\ cvVal = NoVal
    /\ cvOut = <<>>

CallToSmallestUnits ==
    /\ cvOp = "init"
    /\ cvOp' = "toSmallestUnits"
    /\ cvRaw' = ToSmallestUnits(cvIn, cvDec)
    /\ UNCHANGED <<cvOut, cvIn, cvDec, cvNum, cvVal, outsideConv>>

\* fromSmallestUnits(toSmallestUnits(x, d), d)
CallRoundTrip ==
    /\ cvOp = "init"
    /\ LET raw == ToSmallestUnits(cvIn, cvDec)
       IN  /\ cvRaw' = raw
           /\ IF raw.threw
              THEN cvOp' = "threw" /\ cvNum' = cvNum
              ELSE /\ cvOp' = "roundTrip"
                   /\ cvNum' = FromSmallestUnits(NatToStr(raw.value), cvDec)
    /\ UNCHANGED <<cvOut, cvIn, cvDec, cvVal, outsideConv>>

\* validateAmount(x, {decimals: d})
CallValidateAmount ==
    /\ cvOp = "init"
    /\ cvOp' = "validateAmount"
    /\ cvVal' = ValidateAmount(cvIn, Zero, <<>>, <<>>, <<cvDec>>)
    /\ UNCHANGED <<cvOut, cvIn, cvDec, cvRaw, cvNum, outsideConv>>

ConvNext == CallToSmallestUnits \/ CallRoundTrip \/ CallValidateAmount

SpecConv == ConvInit /\ [][ConvNext]_vars

----------------------------------------------------------------------------
(* Claims about the converter and the validator (specification SpecConv) *)

\* the digits of s before / after its first decimal point
IntDigitsOf(s) == SubSeq(s, 1, FirstIndex(s, ".") - 1)
FracDigitsOf(s) == SubSeq(s, FirstIndex(s, ".") + 1, Len(s))

\* a non-negative decimal string: digits with at most one point, one digit at least
IsDecimalString(s) ==
    /\ AllDigits(IntDigitsOf(s))
    /\ AllDigits(FracDigitsOf(s))
    /\ Len(IntDigitsOf(s)) + Len(FracDigitsOf(s)) > 0

\* floor(x * 10^d) for the decimal string x, by integer arithmetic
FloorScaled(s, d) ==
    StrToNat(IntDigitsOf(s)) * Pow10(d)
      + (StrToNat(FracDigitsOf(s)) * Pow10(d)) \div Pow10(Len(FracDigitsOf(s)))

HasNonZeroFraction(s) ==
    \E i \in 1..Len(s) : i > FirstIndex(s, ".") /\ s[i] \in (DigitChars \ {"0"})

\* C3 (as claimed): for every d in 0..9, d = 0 included, and every decimal
\* string x with at most d fractional digits,
\* fromSmallestUnits(toSmallestUnits(x, d), d) is the numeric value of x.
C3_RoundTripExact ==
    (/\ cvOp \in {"roundTrip", "threw"}
     /\ IsDecimalString(cvIn)
     /\ Len(FracDigitsOf(cvIn)) <= cvDec)
        => (cvOp = "roundTrip" /\ cvNum = ParseFloat(cvIn))

\* C4: toSmallestUnits(x, d) = floor(x * 10^d) for every decimal string x:
\* the fraction is padded to d digits and the digits beyond d are dropped,
\* never rounded.
C4_TruncationNotRounding ==
    (cvOp = "toSmallestUnits" /\ IsDecimalString(cvIn))
        => (~cvRaw.threw /\ cvRaw.value = FloorScaled(cvIn, cvDec))

\* C4 witness: "1.999" at 2 decimals has been converted to 199, not 200
C4_Witness ==
    /\ cvOp = "toSmallestUnits"
    /\ cvIn = <<"1", ".", "9", "9", "9">>
    /\ cvDec = 2
    /\ cvRaw.value = 199

\* C7: validateAmount(a, {decimals: 0}) answers {valid: false, error: <whole
\* number message>} whenever a has a non-zero digit after its decimal point
\* or a non-integer value, and never gives that error for an amount whose
\* fractional digits are all zero or absent.
C7_ZeroDecimalEnforcement ==
    (cvOp = "validateAmount" /\ cvDec = 0 /\ IsDecimalString(cvIn))
        => /\ (HasNonZeroFraction(cvIn) \/ ~IsInteger(ParseFloat(cvIn)))
                => cvVal = [valid |-> FALSE, error |-> WholeNumberError]
           /\ ~HasNonZeroFraction(cvIn) => cvVal.error # WholeNumberError

\* C7 witness: "1.5" has been rejected for a zero-decimal token
C7_Witness ==
    /\ cvOp = "validateAmount"
    /\ cvDec = 0
    /\ cvIn = <<"1", ".", "5">>
    /\ cvVal = [valid |-> FALSE, error |-> WholeNumberError]

----------------------------------------------------------------------------
(* EscrowDetail.vue: the escrow snapshot and the computed fill bounds *)

SYSTEM_PROGRAM == "11111111111111111111111111111111"
NoRecipient == "none"

Esc(v) == v.escrow[1]

\* mutant: only an absent recipient counts as public
IsPublicRecipientAbsentOnly(recipientPubkey) == recipientPubkey = NoRecipient

\* !recipientPubkey || recipientPubkey.equals(SystemProgram.programId)
IsPublicRecipient(recipientPubkey) ==
    recipientPubkey = NoRecipient \/ recipientPubkey = SYSTEM_PROGRAM

\* mutant: expiry is tested before the remaining amount
EscrowStatusExpiryFirst(remainingStr, expireTimestampNum, t) ==
    IF expireTimestampNum > 0 /\ expireTimestampNum < t THEN "expired"
    ELSE IF remainingStr = <<"0">> THEN "filled" ELSE "active"

\* isFilled / isExpired / status
EscrowStatus(remainingStr, expireTimestampNum, t) ==
    LET isFilled  == remainingStr = <<"0">>
        isExpired == expireTimestampNum > 0 /\ expireTimestampNum < t
    IN  IF isFilled THEN "filled" ELSE IF isExpired THEN "expired" ELSE "active"

\* the record loadEscrow assigns to escrow.value, built from the fetched
\* account and the token infos at time t (builtAt records t)
BuildSnapshot(account, t) ==
    LET depositRemaining == FromSmallestUnits(NatToStr(account.tokensDepositRemaining),
                                              account.depositDecimals)
        depositInitial   == FromSmallestUnits(NatToStr(account.tokensDepositInit),
                                              account.depositDecimals)
        isPublicRecipient == IsPublicRecipient(account.recipient)
        recipientStr     == IF account.recipient # NoRecipient /\ ~isPublicRecipient
                            THEN account.recipient ELSE "null"
    IN  [maker               |-> account.maker,
         depositDecimals     |-> account.depositDecimals,
         requestDecimals     |-> account.requestDecimals,
         depositAmount       |-> depositInitial,
         depositRemaining    |-> depositRemaining,
         depositAmountRaw    |-> NatToStr(account.tokensDepositInit),
         depositRemainingRaw |-> NatToStr(account.tokensDepositRemaining),
         requestAmount       |-> Mul(depositRemaining, account.price),
         price               |-> account.price,
         expireTimestamp     |-> account.expireTimestamp,
         recipient           |-> recipientStr,
         recipientPubkey     |-> account.recipient,
         onlyRecipient       |-> account.onlyRecipient,
         allowPartialFill    |-> account.allowPartialFill,
         status              |-> EscrowStatus(NatToStr(account.tokensDepositRemaining),
                                              account.expireTimestamp, t),
         builtAt             |-> t]

\* mutant: the wallet balance is not taken into account
MaxFillAmountEscrowOnly(v) ==
    IF v.escrow = <<>> THEN Zero
    ELSE Mul(Esc(v).depositRemaining, Esc(v).price)

MaxFillAmountOf(v) ==
    IF v.escrow = <<>> THEN Zero
    ELSE LET maxFromEscrow  == Mul(Esc(v).depositRemaining, Esc(v).price)
             maxFromBalance == v.requestTokenBalance
         IN  MathMin(maxFromEscrow, maxFromBalance)

CurrentFillAmountOf(v) ==
    IF v.escrow = <<>> \/ ~Esc(v).allowPartialFill
    THEN (IF v.escrow # <<>> THEN Esc(v).requestAmount ELSE Zero)
    ELSE IF v.fillAmount # <<>> /\ ~IsNaN(ParseFloat(v.fillAmount))
         THEN ParseFloat(v.fillAmount)
         ELSE Div(Mul(MaxFillAmountOf(v), v.fillAmountPercent), Num(100))

\* mutant: the upper bound on a partial fill is dropped
CanFillNoUpperBound(v, w) ==
    IF v.escrow = <<>> \/ w = "null" THEN FALSE
    ELSE IF Esc(v).allowPartialFill
         THEN Gt(CurrentFillAmountOf(v), Zero)
         ELSE TRUE

CanFillOf(v, w) ==
    IF v.escrow = <<>> \/ w = "null" THEN FALSE
    ELSE IF Esc(v).allowPartialFill
         THEN /\ Gt(CurrentFillAmountOf(v), Zero)
              /\ Le(CurrentFillAmountOf(v), MaxFillAmountOf(v))
              /\ Le(CurrentFillAmountOf(v), v.requestTokenBalance)
         ELSE /\ Ge(v.requestTokenBalance, Esc(v).requestAmount)
              /\ ~v.loadingRequestTokenBalance

\* mutant: the onlyRecipient restriction is not looked at
CanExchangeNoRecipientCheck(v, w) ==
    IF v.escrow = <<>> \/ w = "null" THEN FALSE
    ELSE IF Esc(v).maker = w THEN FALSE
    ELSE IF Esc(v).status # "active" THEN FALSE
    ELSE TRUE

CanExchangeOf(v, w) ==
    IF v.escrow = <<>> \/ w = "null" THEN FALSE
    ELSE IF Esc(v).maker = w THEN FALSE
    ELSE IF Esc(v).status # "active" THEN FALSE
    ELSE IF Esc(v).recipient # "null" /\ Esc(v).onlyRecipient
         THEN Esc(v).recipient = w
    ELSE TRUE

----------------------------------------------------------------------------
(* EscrowDetail.vue: watchers and the synchronous parts of the loaders.      *)
(* A handler and the watcher flush that follows it form one step: the        *)
(* watchers run before any other task can observe the view.                  *)

MathAbs(x) == IF IsNaN(x) THEN NaN ELSE <<Abs(x[1]), x[2]>>
Hundred == Num(100)

Connected(w) == w # "null"

\* the text written to fillAmount for an amount derived from a percentage
FillAmountText(v, amount) ==
    IF v.escrow # <<>> /\ Esc(v).requestDecimals = 0
    THEN NumToString(MathFloor(amount))
    ELSE FormatDecimals(amount)

\* which of the two wrote it.  fillAmountFrom is a history field of the
\* view: it records the expression that wrote fillAmount last
\* ("formatDecimals", "floor", "input", or "none" for the empty string)
FillAmountOrigin(v) ==
    IF v.escrow # <<>> /\ Esc(v).requestDecimals = 0
    THEN "floor"
    ELSE "formatDecimals"

\* watch(fillAmountPercent, ...)
WatchFillAmountPercent(v) ==
    IF v.escrow # <<>> /\ Esc(v).allowPartialFill
    THEN [v EXCEPT !.fillAmount =
             FillAmountText(v, Div(Mul(MaxFillAmountOf(v), v.fillAmountPercent), Hundred)),
                   !.fillAmountFrom = FillAmountOrigin(v)]
    ELSE v

\* the end of watch(requestTokenBalance, ...): v1 holds the amount as text
SetPercentOfMax(v1, amount) ==
    IF Gt(MaxFillAmountOf(v1), Zero)
    THEN [v1 EXCEPT !.fillAmountPercent =
             MathMin(Hundred, Mul(Div(amount, MaxFillAmountOf(v1)), Hundred))]
    ELSE v1

\* the body of watch(requestTokenBalance, ...) for the amount it computed
FillWithAmount(v, amount) ==
    SetPercentOfMax([v EXCEPT !.fillAmount = FormatDecimals(amount),
                              !.fillAmountFrom = "formatDecimals"], amount)

\* watch(requestTokenBalance, ...)
WatchRequestTokenBalance(v) ==
    IF v.escrow # <<>> /\ Esc(v).allowPartialFill /\ Gt(v.requestTokenBalance, Zero)
    THEN FillWithAmount(v, MathMin(MaxFillAmountOf(v), v.requestTokenBalance))
    ELSE v

\* the watcher flush after a handler that started from view old and left v
\* watch(fillAmountPercent, ...) runs when the handler or the watcher above
\* changed the percentage
FlushPercent(old, v1) ==
    IF v1.fillAmountPercent # old.fillAmountPercent
    THEN WatchFillAmountPercent(v1) ELSE v1

FlushWatchers(old, v) ==
    FlushPercent(old, IF v.requestTokenBalance # old.requestTokenBalance
                      THEN WatchRequestTokenBalance(v) ELSE v)

\* loadRequestTokenBalance up to its first await
IssuesFetch(v, w) == v.escrow # <<>> /\ Connected(w)

LoadRequestTokenBalanceSync(v, w) ==
    IF IssuesFetch(v, w) THEN [v EXCEPT !.loadingRequestTokenBalance = TRUE]
    ELSE [v EXCEPT !.requestTokenBalance = Zero]

\* loadExchangeCosts up to its first await
LoadExchangeCostsSync(v, w) ==
    IF IssuesFetch(v, w) THEN [v EXCEPT !.loadingExchangeCosts = TRUE]
    ELSE [v EXCEPT !.exchangeCosts = "null"]

\* watch(() => escrow.value, ...) for a newly assigned snapshot
WatchEscrow(v, w) ==
    IF v.escrow = <<>> THEN v
    ELSE LET v1 == LoadExchangeCostsSync(LoadRequestTokenBalanceSync(v, w), w)
         IN  IF Esc(v1).allowPartialFill
             THEN [v1 EXCEPT !.fillAmountPercent = Hundred]
             ELSE [v1 EXCEPT !.fillAmount = <<>>, !.fillAmountFrom = "none",
                             !.fillAmountPercent = Hundred]

\* /^[0-9]*\.?[0-9]*$/
ValidPattern(s) ==
    /\ \A i \in 1..Len(s) : s[i] \in DigitChars \cup {"."}
    /\ Cardinality({i \in 1..Len(s) : s[i] = "."}) <= 1

RECURSIVE JoinAll(_)
JoinAll(parts) == IF parts = <<>> THEN <<>> ELSE Head(parts) \o JoinAll(Tail(parts))

IsAmountChar(c) == c \in DigitChars \cup {"."}

\* replace(/[^0-9.]/g, '') and the merge of all but the first decimal point
CleanFillInput(s) ==
    LET kept  == SelectSeq(s, IsAmountChar)
        parts == Split(kept, ".")
    IN  IF Len(parts) > 2 THEN parts[1] \o <<".">> \o JoinAll(Tail(parts)) ELSE kept

\* the text updateFillAmountFromInput keeps from the typed text
SanitizeFillInput(v, rawValue) ==
    IF v.escrow # <<>> /\ Esc(v).requestDecimals = 0
    THEN LET a1 == IF Includes(rawValue, ".") THEN Split(rawValue, ".")[1] ELSE rawValue
             numValue == ParseFloat(a1)
         IN  IF ~IsNaN(numValue) /\ NumToString(MathFloor(MathAbs(numValue))) # a1
             THEN NumToString(MathFloor(MathAbs(numValue)))
             ELSE a1
    ELSE IF ValidPattern(rawValue) THEN rawValue ELSE CleanFillInput(rawValue)

\* updateFillAmountFromInput(event), event.target.value = typed
UpdateFillAmountFromInputOf(v, typed) ==
    LET rawValue == IF typed # <<>> THEN typed ELSE v.fillAmount
    IN  IF rawValue = <<>>
        THEN [v EXCEPT !.fillAmount = <<>>, !.fillAmountFrom = "none",
                       !.fillAmountPercent = Zero]
        ELSE LET amountValue == SanitizeFillInput(v, rawValue)
                 amount      == ParseFloat(amountValue)
                 v1          == [v EXCEPT !.fillAmount = amountValue,
                                             !.fillAmountFrom = "input"]
             IN  IF IsNaN(amount) \/ MaxFillAmountOf(v1) = Zero
                 THEN [v1 EXCEPT !.fillAmountPercent = Zero]
                 ELSE [v1 EXCEPT !.fillAmountPercent =
                          MathMin(Hundred, MathMax(Zero,
                              Mul(Div(amount, MaxFillAmountOf(v1)), Hundred)))]

\* setFillPercentage(percentage)
SetFillPercentageOf(v, percentage) ==
    LET v1     == [v EXCEPT !.fillAmountPercent = percentage]
        amount == Div(Mul(MaxFillAmountOf(v1), percentage), Hundred)
    IN  [v1 EXCEPT !.fillAmount = FillAmountText(v1, amount),
                   !.fillAmountFrom = FillAmountOrigin(v1)]

----------------------------------------------------------------------------
(* EscrowDetail.vue: the detail view as a state machine.                     *)
(* acct is the escrow account on chain (<<>> when it does not exist), now    *)
(* the clock in seconds, wallet the connected public key ("null" when        *)
(* disconnected).  loads counts the account fetches in flight; balPending    *)
(* and costPending tell whether a balance fetch and a cost estimate issued   *)
(* by a watcher are in flight (identical requests in flight are kept once).  *)
(* exchange is the position of the running exchangeEscrow call and tx the    *)
(* parameters it handed to exchangeEscrowTx.  What a balance fetch returns   *)
(* is an input: balances on chain change with transfers the view never sees. *)
(* The clock stands still in SpecDetail; SpecStatus advances it.             *)

Wallets == {"A", "B"}
FillPercentChoices == {50, 100}
FillInputs == {<<>>, <<"1">>, <<"0", ".", "6">>}
BalanceChoices == {Zero, Num(1)}
RemainingChoices == {0, 5, 120}
PriceChoices == {<<1, 2>>, <<2, 1>>}

DefaultAccount ==
    [maker |-> "MAKER", depositDecimals |-> MaxDecimals, requestDecimals |-> MaxDecimals,
     tokensDepositInit |-> 120, tokensDepositRemaining |-> 120,
     price |-> <<2, 1>>, expireTimestamp |-> 0, recipient |-> NoRecipient,
     onlyRecipient |-> FALSE, allowPartialFill |-> TRUE]

\* partial-fill accounts that differ in decimals and price
AmountAccounts ==
    {[DefaultAccount EXCEPT !.depositDecimals = dd, !.requestDecimals = rd, !.price = p] :
        dd \in 0..MaxDecimals, rd \in {0, MaxDecimals}, p \in PriceChoices}

\* accounts that must be filled whole
WholeFillAccounts ==
    {[DefaultAccount EXCEPT !.tokensDepositRemaining = r, !.price = p,
                            !.allowPartialFill = FALSE] :
        r \in RemainingChoices \ {0}, p \in PriceChoices}

\* accounts that differ in the recipient restriction
RecipientAccounts ==
    {[DefaultAccount EXCEPT !.recipient = rc, !.onlyRecipient = o] :
        rc \in {NoRecipient, SYSTEM_PROGRAM, "A"}, o \in BOOLEAN}

\* accounts that differ in expiry and in what is left of the deposit
ExpiryAccounts ==
    {[DefaultAccount EXCEPT !.expireTimestamp = e, !.tokensDepositRemaining = r] :
        e \in 0..MaxTime, r \in RemainingChoices}

Accounts == AmountAccounts \cup WholeFillAccounts \cup RecipientAccounts \cup ExpiryAccounts

NoTx == [amount |-> 0, requestAmount |-> 0, taker |-> "null",
         isFullFill |-> FALSE, remainingRaw |-> <<>>]

InitialView ==
    [loading |-> TRUE, error |-> "null", escrow |-> <<>>,
     fillAmountPercent |-> Hundred, fillAmount |-> <<>>, fillAmountFrom |-> "none",
     requestTokenBalance |-> Zero, loadingRequestTokenBalance |-> FALSE,
     exchangeCosts |-> "null", loadingExchangeCosts |-> FALSE,
     exchanging |-> FALSE]

\* the view right after onMounted has called loadEscrow
DetailInit ==
    /\ ServicesParked
    /\ acct \in {<<>>} \cup {<<a>> : a \in Accounts}
    /\ now = 1
    /\ wallet = "null"
    /\ view = InitialView
    /\ loads = 1
    /\ balPending = FALSE
    /\ costPending = FALSE
    /\ exchange = "idle"
    /\ tx = NoTx
    /\ ConvParked
    /\ StoreInit
    /\ CostParked

\* the fill section is on screen
Rendered == ~view.loading /\ view.escrow # <<>>

\* the fill controls are on screen and not locked by a running exchange
\* (EscrowFillSection receives exchanging to lock them)
FillControlsOpen == Rendered /\ ~view.exchanging

\* watch([connected, publicKey], ...) after the wallet adapter connected w
ConnectWallet ==
    \E w \in Wallets \ {wallet} :
        /\ wallet' = w
        /\ IF view.escrow # <<>>
           THEN /\ view' = FlushWatchers(view,
                              LoadExchangeCostsSync(LoadRequestTokenBalanceSync(view, w), w))
                /\ balPending' = TRUE
                /\ costPending' = TRUE
           ELSE UNCHANGED <<view, balPending, costPending>>
        /\ UNCHANGED <<outsideDetail, acct, now, loads, exchange, tx>>

\* watch([connected, publicKey], ...) after a disconnect: nothing is reloaded
DisconnectWallet ==
    /\ wallet # "null"
    /\ wallet' = "null"
    /\ UNCHANGED <<outsideDetail, acct, now, view, loads, balPending, costPending, exchange, tx>>

\* the end of exchangeEscrow once its awaited loadEscrow has returned
FinishExchange(v) ==
    IF exchange = "reloadEscrow" THEN [v EXCEPT !.exchanging = FALSE] ELSE v

\* mutant: an account that is not found is read as an escrow with nothing
\* left to fill
LoadEscrowDoneMissingAsEmpty ==
    /\ loads > 0
    /\ loads' = loads - 1
    /\ LET account == IF acct = <<>>
                      THEN [DefaultAccount EXCEPT !.tokensDepositRemaining = 0]
                      ELSE acct[1]
           v1 == [view EXCEPT !.escrow = <<BuildSnapshot(account, now)>>,
                              !.loading = FALSE]
       IN  /\ view' = FinishExchange(FlushWatchers(view, WatchEscrow(v1, wallet)))
           /\ balPending' = (balPending \/ IssuesFetch(v1, wallet))
           /\ costPending' = (costPending \/ IssuesFetch(v1, wallet))
    /\ exchange' = IF exchange = "reloadEscrow" THEN "idle" ELSE exchange
    /\ UNCHANGED <<outsideDetail, acct, now, wallet, tx>>

\* loadEscrow from the return of fetchEscrowByAddress to its end
LoadEscrowDone ==
    /\ loads > 0
    /\ loads' = loads - 1
    /\ IF acct = <<>>
       THEN /\ view' = FinishExchange([view EXCEPT !.error = "Escrow not found",
                                                   !.escrow = <<>>, !.loading = FALSE])
            /\ UNCHANGED <<balPending, costPending>>
       ELSE LET v1 == [view EXCEPT !.escrow = <<BuildSnapshot(acct[1], now)>>,
                                   !.loading = FALSE]
            IN  /\ view' = FinishExchange(FlushWatchers(view, WatchEscrow(v1, wallet)))
                /\ balPending' = (balPending \/ IssuesFetch(v1, wallet))
                /\ costPending' = (costPending \/ IssuesFetch(v1, wallet))
    /\ exchange' = IF exchange = "reloadEscrow" THEN "idle" ELSE exchange
    /\ UNCHANGED <<outsideDetail, acct, now, wallet, tx>>

\* loadEscrow when the fetch throws
LoadEscrowFail ==
    /\ loads > 0
    /\ loads' = loads - 1
    /\ view' = FinishExchange([view EXCEPT !.error = "Failed to load escrow",
                                           !.loading = FALSE])
    /\ exchange' = IF exchange = "reloadEscrow" THEN "idle" ELSE exchange
    /\ UNCHANGED <<outsideDetail, acct, now, wallet, balPending, costPending, tx>>

\* loadRequestTokenBalance after its await; fetchSingleTokenBalance returns
\* the balance found, and 0 when there is none or the RPC failed
BalanceFetchDone ==
    \E balance \in BalanceChoices :
        /\ balPending
        /\ balPending' = FALSE
        /\ view' = FlushWatchers(view,
                       [view EXCEPT !.requestTokenBalance = balance,
                                    !.loadingRequestTokenBalance = FALSE])
        /\ UNCHANGED <<outsideDetail, acct, now, wallet, loads, costPending, exchange, tx>>

\* loadExchangeCosts after its await
CostFetchDone ==
    \E ok \in BOOLEAN :
        /\ costPending
        /\ costPending' = FALSE
        /\ view' = [view EXCEPT !.exchangeCosts = IF ok THEN "costs" ELSE "null",
                                !.loadingExchangeCosts = FALSE]
        /\ UNCHANGED <<outsideDetail, acct, now, wallet, loads, balPending, exchange, tx>>

\* v-model:fill-amount-percent
SetFillAmountPercent ==
    \E p \in FillPercentChoices :
        /\ FillControlsOpen
        /\ view' = FlushWatchers(view, [view EXCEPT !.fillAmountPercent = Num(p)])
        /\ UNCHANGED <<outsideDetail, acct, now, wallet, loads, balPending, costPending, exchange, tx>>

\* @set-fill-percentage
SetFillPercentage ==
    \E p \in FillPercentChoices :
        /\ FillControlsOpen
        /\ view' = FlushWatchers(view, SetFillPercentageOf(view, Num(p)))
        /\ UNCHANGED <<outsideDetail, acct, now, wallet, loads, balPending, costPending, exchange, tx>>

\* v-model:fill-amount followed by @update-fill-amount-from-input
UpdateFillAmountFromInput ==
    \E typed \in FillInputs :
        /\ FillControlsOpen
        /\ view' = FlushWatchers(view,
                       UpdateFillAmountFromInputOf([view EXCEPT !.fillAmount = typed], typed))
        /\ UNCHANGED <<outsideDetail, acct, now, wallet, loads, balPending, costPending, exchange, tx>>

Tolerance == <<1, 10000>>
FullFillPercent == <<9999, 100>>

\* the full-fill test of exchangeEscrow
IsFullFill(v) ==
    \/ Ge(v.fillAmountPercent, FullFillPercent)
    \/ Lt(MathAbs(Sub(CurrentFillAmountOf(v), MaxFillAmountOf(v))), Tolerance)
    \/ /\ Gt(MaxFillAmountOf(v), Zero)
       /\ Ge(CurrentFillAmountOf(v), Mul(MaxFillAmountOf(v), Sub(Num(1), Tolerance)))

\* depositAmountRaw of exchangeEscrow
DepositAmountRaw(v) ==
    LET depositAmountToExchange ==
            IF Esc(v).allowPartialFill
            THEN IF IsFullFill(v) THEN Esc(v).depositRemaining
                 ELSE Div(CurrentFillAmountOf(v), Esc(v).price)
            ELSE Esc(v).depositRemaining
    IN  ToSmallestUnits(NumToString(depositAmountToExchange), Esc(v).depositDecimals)

\* requestAmountRaw of exchangeEscrow
RequestAmountRaw(v) ==
    ToSmallestUnits(NumToString(CurrentFillAmountOf(v)), Esc(v).requestDecimals)

\* the recipient check at the head of exchangeEscrow
RecipientRefuses(v, w) ==
    /\ Esc(v).recipientPubkey # NoRecipient
    /\ ~IsPublicRecipient(Esc(v).recipientPubkey)
    /\ Esc(v).onlyRecipient
    /\ Esc(v).recipientPubkey # w

\* exchangeEscrow up to the call of exchangeEscrowTx; it returns early without
\* a wallet, for a wallet the recipient check refuses, and when a conversion
\* throws
ExchangeEscrow ==
    /\ Rendered
    /\ exchange = "idle"
    /\ IF \/ ~Connected(wallet)
          \/ RecipientRefuses(view, wallet)
          \/ DepositAmountRaw(view).threw
          \/ RequestAmountRaw(view).threw
       THEN UNCHANGED <<view, exchange, tx>>
       ELSE /\ view' = [view EXCEPT !.exchanging = TRUE]
            /\ exchange' = "tx"
            /\ tx' = [amount |-> DepositAmountRaw(view).value,
                      requestAmount |-> RequestAmountRaw(view).value,
                      taker |-> wallet,
                      isFullFill |-> (Esc(view).allowPartialFill /\ IsFullFill(view)),
                      remainingRaw |-> Esc(view).depositRemainingRaw]
    /\ UNCHANGED <<outsideDetail, acct, now, wallet, loads, balPending, costPending>>

\* what the chain needs at least to execute the submitted exchange
ChainAccepts ==
    /\ acct # <<>>
    /\ tx.amount > 0
    /\ tx.amount <= acct[1].tokensDepositRemaining

\* What is left on chain once the exchange has settled: the taker's fill,
\* and possibly fills of others landing with it, leave one of the modelled
\* amounts.
SettledRemaining ==
    {r \in RemainingChoices : r <= acct[1].tokensDepositRemaining - tx.amount}

\* exchangeEscrow when exchangeEscrowTx rejects
ExchangeTxFail ==
    /\ exchange = "tx"
    /\ view' = [view EXCEPT !.exchanging = FALSE]
    /\ exchange' = "idle"
    /\ tx' = NoTx
    /\ UNCHANGED <<outsideDetail, acct, now, wallet, loads, balPending, costPending>>

\* exchangeEscrow from the return of exchangeEscrowTx to its next await:
\* the balance reload, or loadEscrow at once when no balance fetch is issued
ExchangeTxDone ==
    /\ exchange = "tx"
    /\ ChainAccepts
    /\ \E r \in SettledRemaining :
           acct' = <<[acct[1] EXCEPT !.tokensDepositRemaining = r]>>
    /\ IF IssuesFetch(view, wallet)
       THEN /\ view' = LoadRequestTokenBalanceSync(view, wallet)
            /\ exchange' = "reloadBalance"
            /\ loads' = loads
       ELSE /\ view' = FlushWatchers(view,
                           [LoadRequestTokenBalanceSync(view, wallet) EXCEPT
                               !.loading = TRUE, !.error = "null"])
            /\ exchange' = "reloadEscrow"
            /\ loads' = loads + 1
    /\ tx' = NoTx
    /\ UNCHANGED <<outsideDetail, now, wallet, balPending, costPending>>

\* exchangeEscrow from the return of its balance reload to the call of loadEscrow
ExchangeBalanceDone ==
    \E balance \in BalanceChoices :
        /\ exchange = "reloadBalance"
        /\ view' = FlushWatchers(view,
                       [view EXCEPT !.requestTokenBalance = balance,
                                    !.loadingRequestTokenBalance = FALSE,
                                    !.loading = TRUE, !.error = "null"])
        /\ exchange' = "reloadEscrow"
        /\ loads' = loads + 1
        /\ UNCHANGED <<outsideDetail, acct, now, wallet, balPending, costPending, tx>>

DetailNext ==
    \/ ConnectWallet
    \/ DisconnectWallet
    \/ LoadEscrowDone
    \/ LoadEscrowFail
    \/ BalanceFetchDone
    \/ SetFillAmountPercent
    \/ SetFillPercentage
    \/ UpdateFillAmountFromInput
    \/ ExchangeEscrow
    \/ ExchangeTxFail
    \/ ExchangeTxDone
    \/ ExchangeBalanceDone

\* exchangeCosts and loadingExchangeCosts are written by loadExchangeCosts and
\* read by no handler, watcher or computed value of the view, so the other
\* variables take the same values whether or not an estimate returns.
\* SpecDetail leaves the return out; SpecDetailCosts is the view with it, and
\* SpecCost follows an estimate check by check.
SpecDetail == DetailInit /\ [][DetailNext]_vars

SpecDetailCosts == DetailInit /\ [][DetailNext \/ CostFetchDone]_vars


----------------------------------------------------------------------------
(* The escrow store's list (loadEscrows) next to the detail view's loader.   *)
(* escrows is the store's list, loadingEscrows and escrowsError its flags,   *)
(* escrowsPending the maker filters of the fetches in flight.                *)

MakerFilters == {"null", "MAKER", "A"}

\* the record loadEscrows builds for one fetched account at time t; builtAt
\* and depositRemainingRaw record t and the raw amount read
FormatEscrow(account, t) ==
    LET depositRemaining == FromSmallestUnits(NatToStr(account.tokensDepositRemaining),
                                              account.depositDecimals)
        depositInitial   == FromSmallestUnits(NatToStr(account.tokensDepositInit),
                                              account.depositDecimals)
    IN  [maker               |-> account.maker,
         depositDecimals     |-> account.depositDecimals,
         requestDecimals     |-> account.requestDecimals,
         depositAmount       |-> depositInitial,
         depositRemaining    |-> depositRemaining,
         depositRemainingRaw |-> NatToStr(account.tokensDepositRemaining),
         requestAmount       |-> Mul(depositRemaining, account.price),
         price               |-> account.price,
         expireTimestamp     |-> account.expireTimestamp,
         recipient           |-> IF account.recipient # NoRecipient
                                 THEN account.recipient ELSE "null",
         onlyRecipient       |-> account.onlyRecipient,
         allowPartialFill    |-> account.allowPartialFill,
         status              |-> EscrowStatus(NatToStr(account.tokensDepositRemaining),
                                              account.expireTimestamp, t),
         builtAt             |-> t]

\* fetchAllEscrows(connection, makerFilter)
FetchAllEscrows(makerFilter) ==
    IF acct # <<>> /\ (makerFilter = "null" \/ acct[1].maker = makerFilter)
    THEN acct ELSE <<>>

\* loadEscrows up to its first await
LoadEscrows ==
    \E makerPublicKey \in MakerFilters :
        /\ loadingEscrows' = TRUE
        /\ escrowsError' = "null"
        /\ escrowsPending' = escrowsPending \cup {makerPublicKey}
        /\ UNCHANGED <<convVars, serviceVars, detailVars, formVars, costVars, escrows>>

\* loadEscrows from the return of fetchAllEscrows to its end
LoadEscrowsDone ==
    \E makerFilter \in escrowsPending :
        /\ escrowsPending' = escrowsPending \ {makerFilter}
        /\ escrows' = [i \in 1..Len(FetchAllEscrows(makerFilter)) |->
                          FormatEscrow(FetchAllEscrows(makerFilter)[i], now)]
        /\ loadingEscrows' = FALSE
        /\ UNCHANGED <<convVars, serviceVars, detailVars, formVars, costVars, escrowsError>>

\* loadEscrows when the fetch throws
LoadEscrowsFail ==
    \E makerFilter \in escrowsPending :
        /\ escrowsPending' = escrowsPending \ {makerFilter}
        /\ escrowsError' = "Failed to load escrows"
        /\ loadingEscrows' = FALSE
        /\ UNCHANGED <<convVars, serviceVars, detailVars, formVars, costVars, escrows>>

\* the clock, read by both loaders
Tick ==
    /\ now < MaxTime
    /\ now' = now + 1
    /\ UNCHANGED <<convVars, serviceVars, storeVars, formVars, costVars, acct, wallet, view, loads, balPending,
                   costPending, exchange, tx>>

StatusNext ==
    \/ Tick
    \/ LoadEscrowDone
    \/ LoadEscrowFail
    \/ LoadEscrows
    \/ LoadEscrowsDone
    \/ LoadEscrowsFail

\* both loaders at work while the clock advances
SpecStatus == DetailInit /\ [][StatusNext]_vars


----------------------------------------------------------------------------
(* Claims about the escrow records and the fill section *)

HasEscrow == view.escrow # <<>>

\* the status the raw remaining amount r, the expiry e and the time t call for
ExpectedStatus(r, e, t) ==
    IF r = 0 THEN "filled"
    ELSE IF e > 0 /\ e < t THEN "expired"
    ELSE "active"

StatusAsExpected(record) ==
    record.status = ExpectedStatus(StrToNat(record.depositRemainingRaw),
                                   record.expireTimestamp, record.builtAt)

\* C1: every record built by loadEscrow (detail view) or loadEscrows (store)
\* at time now has status 'filled' iff nothing remains of the deposit,
\* whatever the expiry; otherwise 'expired' iff expireTimestamp > 0 and
\* expireTimestamp < now; otherwise 'active'.
C1_StatusDerivation ==
    /\ HasEscrow => StatusAsExpected(Esc(view))
    /\ \A i \in 1..Len(escrows) : StatusAsExpected(escrows[i])

\* both loaders have built the record of an escrow with nothing remaining
\* whose expiry had passed when they read the clock
C1_Witness ==
    /\ HasEscrow
    /\ Esc(view).status = "filled"
    /\ Esc(view).expireTimestamp > 0
    /\ Esc(view).expireTimestamp < Esc(view).builtAt
    /\ Len(escrows) = 1
    /\ escrows[1].status = "filled"
    /\ escrows[1].expireTimestamp > 0
    /\ escrows[1].expireTimestamp < escrows[1].builtAt

\* C2: on a partial-fill escrow, an exchange classified as a full fill hands
\* exchangeEscrowTx exactly the raw remaining deposit read from chain.
C2_FullFillUsesRawRemaining ==
    (exchange = "tx" /\ tx.isFullFill) => tx.amount = StrToNat(tx.remainingRaw)

DepositTimesPrice == Mul(Esc(view).depositRemaining, Esc(view).price)

\* C5: maxFillAmount is the smaller of depositRemaining * price and
\* requestTokenBalance for the loaded escrow and 0 without one, so it exceeds
\* neither; and it does not increase in a step in which neither the balance
\* nor depositRemaining increases.
C5_MaxFillAmountBound ==
    /\ [](IF HasEscrow
          THEN /\ Le(MaxFillAmountOf(view), DepositTimesPrice)
               /\ Le(MaxFillAmountOf(view), view.requestTokenBalance)
               /\ MaxFillAmountOf(view) \in {DepositTimesPrice, view.requestTokenBalance}
          ELSE MaxFillAmountOf(view) = Zero)
    /\ [][(/\ HasEscrow
           /\ view'.escrow # <<>>
           /\ Esc(view').price = Esc(view).price
           /\ Le(view'.requestTokenBalance, view.requestTokenBalance)
           /\ Le(Esc(view').depositRemaining, Esc(view).depositRemaining))
          => Le(MaxFillAmountOf(view'), MaxFillAmountOf(view))]_vars

\* the wallet's balance, not the escrow, limits the fill
C5_Witness ==
    /\ HasEscrow
    /\ Gt(view.requestTokenBalance, Zero)
    /\ Lt(view.requestTokenBalance, DepositTimesPrice)
    /\ MaxFillAmountOf(view) = view.requestTokenBalance

\* C6: with an escrow loaded and a wallet connected, a partial-fill escrow
\* can be filled iff 0 < currentFillAmount <= maxFillAmount; an escrow that
\* does not allow partial fills always has currentFillAmount = requestAmount,
\* and can be filled only if requestTokenBalance >= requestAmount.
C6_CanFill ==
    (HasEscrow /\ Connected(wallet)) =>
        IF Esc(view).allowPartialFill
        THEN CanFillOf(view, wallet) <=>
                 (/\ Gt(CurrentFillAmountOf(view), Zero)
                  /\ Le(CurrentFillAmountOf(view), MaxFillAmountOf(view)))
        ELSE /\ CurrentFillAmountOf(view) = Esc(view).requestAmount
             /\ CanFillOf(view, wallet) =>
                    Ge(view.requestTokenBalance, Esc(view).requestAmount)

\* a partial-fill escrow that can be filled with less than the maximum
C6_Witness ==
    /\ HasEscrow
    /\ Connected(wallet)
    /\ Esc(view).allowPartialFill
    /\ CanFillOf(view, wallet)
    /\ Lt(CurrentFillAmountOf(view), MaxFillAmountOf(view))

IsPublicOnChain(record) == record.recipientPubkey \in {NoRecipient, SYSTEM_PROGRAM}

\* C9: in the snapshot built by loadEscrow, isPublicRecipient holds iff the
\* recipient on chain is absent or the system program; the recipient string
\* is null exactly then, and the recipient's address otherwise.
C9_PublicRecipient ==
    HasEscrow =>
        /\ IsPublicRecipient(Esc(view).recipientPubkey) <=> IsPublicOnChain(Esc(view))
        /\ (Esc(view).recipient = "null") <=> IsPublicOnChain(Esc(view))
        /\ ~IsPublicOnChain(Esc(view)) => Esc(view).recipient = Esc(view).recipientPubkey

\* a snapshot whose recipient on chain is the system program
C9_Witness ==
    /\ HasEscrow
    /\ Esc(view).recipientPubkey = SYSTEM_PROGRAM
    /\ Esc(view).recipient = "null"

\* an escrow reserved for its recipient is shown to another connected wallet
ReservedForAnother ==
    /\ HasEscrow
    /\ ~IsPublicOnChain(Esc(view))
    /\ Esc(view).onlyRecipient
    /\ Connected(wallet)
    /\ wallet # Esc(view).recipientPubkey

\* C10: when the loaded escrow has a recipient other than the system program
\* and onlyRecipient is set, canExchange is false for every connected wallet
\* other than the recipient, and exchangeEscrow called by such a wallet does
\* not reach exchangeEscrowTx.
C10_OnlyRecipient ==
    /\ [](ReservedForAnother => ~CanExchangeOf(view, wallet))
    /\ [][ReservedForAnother => ~(exchange = "idle" /\ exchange' = "tx")]_vars

\* an active reserved escrow on screen for another wallet that may press
\* the exchange button
C10_Witness ==
    /\ ReservedForAnother
    /\ Rendered
    /\ exchange = "idle"
    /\ Esc(view).status = "active"
    /\ Esc(view).maker # wallet

----------------------------------------------------------------------------
(* The create-escrow form: the store's form state and validity, the amount *)
(* input of TokenAmountSelector, and handleCreateEscrow.                   *)
(*                                                                         *)
(* A token is a record [mint, decimals].  errors.form is a set of          *)
(* <<field, message>> pairs.  handleCreateEscrow is taken in one step up   *)
(* to the settling of initializeEscrow; initCall holds the parameters of   *)
(* the call that step made and is emptied by every other step.  The seed,  *)
(* random and not read again by the form, is left out of the parameters.   *)
(* The settings that are changed are direct, directAddress and             *)
(* partialFill; expire stays off and slippage stays at its default.        *)
(* The cost panel of the view reads the form and is read by nothing in it  *)
(* (canSubmit and handleCreateEscrow do not look at costBreakdown or       *)
(* loadingCosts), so its variables stand still here; the watcher that      *)
(* feeds it is part of the steps of the cost-panel specification below.    *)
(***************************************************************************)

Tokens ==
    {[mint |-> "MINT_WHOLE", decimals |-> 0],
     [mint |-> "MINT_WHOLE_2", decimals |-> 0],
     [mint |-> "MINT_FRAC", decimals |-> MaxDecimals]}

\* what the user can have typed into the amount field
FormInputs == {<<>>, <<"2">>, <<"2", ".", "5">>}

DirectAddresses == {"", "A", "bad", SYSTEM_PROGRAM}

\* the strings new PublicKey() accepts
PublicKeys == Wallets \cup {"MAKER", SYSTEM_PROGRAM}

MinMinutesFromNow == 5
MinSlippage == 0
MaxSlippage == 10000

\* validators.js
ValidateSolanaAddress(address) ==
    IF address = "" THEN [valid |-> FALSE, error |-> "Address is required"]
    ELSE IF address \in PublicKeys THEN [valid |-> TRUE, error |-> "null"]
    ELSE [valid |-> FALSE, error |-> "Invalid Solana address format"]

\* validateExpirationDate(expirationDate) at time t, dates and t in minutes
ValidateExpirationDate(expirationDate, t) ==
    IF expirationDate = <<>>
    THEN [valid |-> FALSE, error |-> "Expiration date is required"]
    ELSE IF expirationDate[1] <= t + MinMinutesFromNow
         THEN [valid |-> FALSE, error |-> "Expiration must be at least 5 minutes from now"]
    ELSE [valid |-> TRUE, error |-> "null"]

\* validateSlippage(slippage) for a number
ValidateSlippage(slippage) ==
    IF slippage < MinSlippage
    THEN [valid |-> FALSE, error |-> "Slippage must be at least 0 milli%"]
    ELSE IF slippage > MaxSlippage
         THEN [valid |-> FALSE, error |-> "Slippage cannot exceed 10000 milli%"]
    ELSE [valid |-> TRUE, error |-> "null"]

\* recipientValidation.js: a valid address that is not the system program
ValidateRecipientAddress(address) ==
    IF address = SYSTEM_PROGRAM
    THEN [valid |-> FALSE, error |-> "Cannot use SystemProgram as recipient"]
    ELSE ValidateSolanaAddress(address)

\* useWalletValidation.validateWallet throws unless a wallet is connected
ValidateWalletReady(w) == Connected(w)

\* escrow store, computed properties
HasValidOffer(tok, amt) == tok # <<>> /\ Gt(ParseFloat(amt), Zero)

HasValidRequest(tok, amt) == tok # <<>> /\ Gt(ParseFloat(amt), Zero)

\* decimalPart.split('').some(digit => digit !== '0') of the text after the
\* first point
SomeNonZeroDecimal(amountStr) ==
    LET parts       == Split(amountStr, ".")
        decimalPart == IF Len(parts) >= 2 THEN parts[2] ELSE <<>>
    IN  /\ Includes(amountStr, ".")
        /\ Len(decimalPart) > 0
        /\ \E i \in 1..Len(decimalPart) : decimalPart[i] # "0"

IsValidOfferAmount(tok, amt) ==
    LET amount == ParseFloat(amt)
    IN  IF tok = <<>> THEN FALSE
        ELSE IF IsNaN(amount) \/ Le(amount, Zero) THEN FALSE
        ELSE IF tok[1].decimals = 0 /\ ~IsInteger(amount) THEN FALSE
        ELSE IF tok[1].decimals = 0 /\ SomeNonZeroDecimal(amt) THEN FALSE
        ELSE TRUE

IsValidRequestAmount(tok, amt) ==
    LET amount == ParseFloat(amt)
    IN  IF tok = <<>> THEN FALSE
        ELSE IF IsNaN(amount) \/ Le(amount, Zero) THEN FALSE
        ELSE IF tok[1].decimals = 0 /\ ~IsInteger(amount) THEN FALSE
        ELSE IF tok[1].decimals = 0 /\ SomeNonZeroDecimal(amt) THEN FALSE
        ELSE TRUE

IsValidDirectAddress(st) ==
    IF ~st.direct \/ st.directAddress = "" THEN TRUE
    ELSE ValidateSolanaAddress(st.directAddress).valid

IsValidExpireDate(st, t) ==
    IF ~st.expire \/ st.expireDate = <<>> THEN TRUE
    ELSE ValidateExpirationDate(st.expireDate, t).valid

IsValidSlippage(st) ==
    IF ~st.partialFill THEN TRUE
    ELSE ValidateSlippage(st.slippage).valid

\* offerToken.value?.mint: undefined for no token
MintOf(tok) == IF tok = <<>> THEN "undefined" ELSE tok[1].mint

IsFormValidOf(ot, oa, rt, ra, st, t) ==
    /\ HasValidOffer(ot, oa)
    /\ HasValidRequest(rt, ra)
    /\ IsValidDirectAddress(st)
    /\ IsValidExpireDate(st, t)
    /\ IsValidSlippage(st)
    /\ MintOf(ot) # MintOf(rt)

IsFormValid ==
    IsFormValidOf(offerToken, offerAmount, requestToken, requestAmount, settings, now)

\* the message formValidationErrors gives for an amount that is not valid
AmountMessage(tok, amt, plain) ==
    LET amount == ParseFloat(amt)
    IN  IF tok[1].decimals = 0 /\ ~IsNaN(amount) /\ Gt(amount, Zero)
        THEN IF Includes(amt, ".")
             THEN (IF SomeNonZeroDecimal(amt) THEN WholeNumberError ELSE plain)
             ELSE (IF ~IsInteger(amount) THEN WholeNumberError ELSE plain)
        ELSE plain

FormValidationErrors ==
    (IF offerToken = <<>>
     THEN {<<"offerToken", "Please select a token to offer">>}
     ELSE IF ~IsValidOfferAmount(offerToken, offerAmount)
          THEN {<<"offerAmount",
                  AmountMessage(offerToken, offerAmount, "Please enter a valid offer amount")>>}
          ELSE {})
    \cup
    (IF requestToken = <<>>
     THEN {<<"requestToken", "Please select a token to request">>}
     ELSE IF ~IsValidRequestAmount(requestToken, requestAmount)
          THEN {<<"requestAmount",
                  AmountMessage(requestToken, requestAmount,
                                "Please enter a valid request amount")>>}
          ELSE {})
    \cup
    (IF offerToken # <<>> /\ requestToken # <<>> /\ offerToken[1].mint = requestToken[1].mint
     THEN {<<"tokens", "Offer and request tokens must be different">>} ELSE {})
    \cup
    (IF settings.direct /\ settings.directAddress # "" /\ ~IsValidDirectAddress(settings)
     THEN {<<"directAddress", ValidateSolanaAddress(settings.directAddress).error>>}
     ELSE {})
    \cup
    (IF settings.expire /\ settings.expireDate # <<>> /\ ~IsValidExpireDate(settings, now)
     THEN {<<"expireDate", ValidateExpirationDate(settings.expireDate, now).error>>}
     ELSE {})
    \cup
    (IF settings.partialFill /\ ~IsValidSlippage(settings)
     THEN {<<"slippage", ValidateSlippage(settings.slippage).error>>} ELSE {})

\* setOfferAmount / setRequestAmount for a string: '' becomes '0.00'
SetAmountOf(amount) == IF amount = <<>> THEN InitialAmount ELSE amount

\* TokenAmountSelector.updateAmount: the string emitted for rawValue while
\* tok is the selected token
UpdateAmountOf(tok, rawValue) ==
    LET whole    == tok # <<>> /\ tok[1].decimals = 0
        cut      == IF whole /\ Includes(rawValue, ".")
                    THEN Split(rawValue, ".")[1] ELSE rawValue
        numValue == ParseFloat(cut)
    IN  IF rawValue = <<>> THEN <<>>
        ELSE IF whole /\ ~IsNaN(numValue) THEN NumToString(MathFloor(numValue))
        ELSE cut


\* the form view is on screen; a wallet may be connected
FormInit ==
    /\ ServicesParked
    /\ ConvParked
    /\ DetailViewParked
    /\ wallet \in {"null"} \cup Wallets
    /\ StoreInit
    /\ CostParked

\* TokenAmountSelector.selectToken -> setOfferToken (the amount is not touched)
SelectOfferToken ==
    \E tok \in Tokens :
        /\ offerToken' = <<tok>>
        /\ initCall' = <<>>
        /\ UNCHANGED <<outsideForm, storeVars, offerAmount, requestToken, requestAmount,
                       settings, errorsForm, errorsTransaction>>

SelectRequestToken ==
    \E tok \in Tokens :
        /\ requestToken' = <<tok>>
        /\ initCall' = <<>>
        /\ UNCHANGED <<outsideForm, storeVars, offerToken, offerAmount, requestAmount,
                       settings, errorsForm, errorsTransaction>>

\* TokenAmountSelector.clearToken: the token is emitted as null, then
\* updateAmount() runs on '0.00' with the token prop not yet re-rendered
ClearOfferToken ==
    /\ offerToken # <<>>
    /\ offerToken' = <<>>
    /\ offerAmount' = SetAmountOf(UpdateAmountOf(offerToken, InitialAmount))
    /\ initCall' = <<>>
    /\ UNCHANGED <<outsideForm, storeVars, requestToken, requestAmount, settings,
                   errorsForm, errorsTransaction>>

ClearRequestToken ==
    /\ requestToken # <<>>
    /\ requestToken' = <<>>
    /\ requestAmount' = SetAmountOf(UpdateAmountOf(requestToken, InitialAmount))
    /\ initCall' = <<>>
    /\ UNCHANGED <<outsideForm, storeVars, offerToken, offerAmount, settings,
                   errorsForm, errorsTransaction>>

\* @input of the amount field: updateAmount(event) -> setOfferAmount
UpdateOfferAmount ==
    \E typed \in FormInputs :
        /\ offerAmount' = SetAmountOf(UpdateAmountOf(offerToken, typed))
        /\ initCall' = <<>>
        /\ UNCHANGED <<outsideForm, storeVars, offerToken, requestToken, requestAmount,
                       settings, errorsForm, errorsTransaction>>

UpdateRequestAmount ==
    \E typed \in FormInputs :
        /\ requestAmount' = SetAmountOf(UpdateAmountOf(requestToken, typed))
        /\ initCall' = <<>>
        /\ UNCHANGED <<outsideForm, storeVars, offerToken, offerAmount, requestToken,
                       settings, errorsForm, errorsTransaction>>

\* updateSettings({ direct }), ({ directAddress }) and ({ partialFill })
UpdateSettings ==
    /\ \/ \E b \in BOOLEAN : settings' = [settings EXCEPT !.direct = b]
       \/ \E a \in DirectAddresses : settings' = [settings EXCEPT !.directAddress = a]
       \/ \E b \in BOOLEAN : settings' = [settings EXCEPT !.partialFill = b]
    /\ initCall' = <<>>
    /\ UNCHANGED <<outsideForm, storeVars, offerToken, offerAmount, requestToken,
                   requestAmount, errorsForm, errorsTransaction>>

\* the Create Escrow button is enabled (loading and txLoading are false
\* between handler runs)
CanSubmitOf(ot, oa, rt, ra, st, t, w) ==
    IsFormValidOf(ot, oa, rt, ra, st, t) /\ Connected(w)

CanSubmit ==
    CanSubmitOf(offerToken, offerAmount, requestToken, requestAmount, settings,
                now, wallet)

\* the recipient handed to initializeEscrow: "null" when none is set
RecipientAddressOf(st) ==
    IF st.direct /\ st.directAddress # "" THEN st.directAddress ELSE "null"

\* the params object of handleCreateEscrow
CreateParams(depositAmount, requestAmt) ==
    [depositTokenMint |-> offerToken[1].mint,
     requestTokenMint |-> requestToken[1].mint,
     depositAmount    |-> depositAmount,
     requestAmount    |-> requestAmt,
     expireTimestamp  |-> 0,
     allowPartialFill |-> settings.partialFill,
     onlyWhitelist    |-> settings.whitelist,
     slippage         |-> Rat(settings.slippage, 100000),
     recipient        |-> RecipientAddressOf(settings)]

\* resetForm
ResetForm ==
    /\ offerToken' = <<>>
    /\ offerAmount' = InitialAmount
    /\ requestToken' = <<>>
    /\ requestAmount' = InitialAmount
    /\ settings' = InitialSettings

\* a click on the enabled Create Escrow button: handleCreateEscrow up to the
\* settling of initializeEscrow
HandleCreateEscrow ==
    /\ CanSubmit
    /\ UNCHANGED <<outsideForm, escrows, loadingEscrows, escrowsPending>>
    /\ IF ~IsFormValid
       THEN \* validateForm() stored the errors and returned false
            /\ errorsForm' = FormValidationErrors
            /\ initCall' = <<>>
            /\ UNCHANGED <<escrowsError, offerToken, offerAmount, requestToken,
                           requestAmount, settings, errorsTransaction>>
       ELSE IF ~ValidateWalletReady(wallet)
       THEN /\ errorsForm' = {<<"general", "wallet not ready">>}
            /\ initCall' = <<>>
            /\ UNCHANGED <<escrowsError, offerToken, offerAmount, requestToken,
                           requestAmount, settings, errorsTransaction>>
       ELSE \* clearErrors() has run
            /\ escrowsError' = "null"
            /\ LET direct     == settings.direct /\ settings.directAddress # ""
                   validation == ValidateRecipientAddress(settings.directAddress)
                   deposit    == ToSmallestUnits(offerAmount, offerToken[1].decimals)
                   request    == ToSmallestUnits(requestAmount, requestToken[1].decimals)
               IN  IF direct /\ ~validation.valid
                   THEN /\ errorsForm' = {<<"general", validation.error>>,
                                          <<"directAddress", validation.error>>}
                        /\ errorsTransaction' = "null"
                        /\ initCall' = <<>>
                        /\ UNCHANGED <<offerToken, offerAmount, requestToken,
                                       requestAmount, settings>>
                   ELSE IF deposit.threw \/ request.threw
                   THEN /\ errorsForm' = {}
                        /\ errorsTransaction' = "Failed to create escrow"
                        /\ initCall' = <<>>
                        /\ UNCHANGED <<offerToken, offerAmount, requestToken,
                                       requestAmount, settings>>
                   ELSE /\ initCall' = <<CreateParams(deposit.value, request.value)>>
                        /\ errorsForm' = {}
                        /\ \E ok \in BOOLEAN :
                               IF ok
                               THEN ResetForm /\ errorsTransaction' = "null"
                               ELSE /\ errorsTransaction' = "Failed to create escrow"
                                    /\ UNCHANGED <<offerToken, offerAmount, requestToken,
                                                   requestAmount, settings>>

FormNext ==
    \/ SelectOfferToken
    \/ SelectRequestToken
    \/ ClearOfferToken
    \/ ClearRequestToken
    \/ UpdateOfferAmount
    \/ UpdateRequestAmount
    \/ UpdateSettings
    \/ HandleCreateEscrow

SpecForm == FormInit /\ [][FormNext]_vars

----------------------------------------------------------------------------
(* Claims on the create-escrow form *)

\* the token has no decimals and the stored amount has a non-zero digit
\* after the point
FractionalForWhole(tok, amt) ==
    tok # <<>> /\ tok[1].decimals = 0 /\ HasNonZeroFraction(amt)

FractionalAmountStored ==
    \/ FractionalForWhole(offerToken, offerAmount)
    \/ FractionalForWhole(requestToken, requestAmount)

\* C8: whenever the offer or request token has decimals = 0 and its stored
\* amount is fractional, validateForm returns false (isFormValid is false)
\* and no step from such a state calls initializeEscrow
C8_FractionalAmountBlocksCreation ==
    /\ [](FractionalAmountStored => ~IsFormValid)
    /\ [][FractionalAmountStored => initCall' = <<>>]_vars

----------------------------------------------------------------------------
(* transactionCosts.js: the cost estimator.                                *)
(*                                                                         *)
(* The fee table (constants/fees.js) is not part of the sources at hand;   *)
(* the estimator is checked for each table of FeeTables, amounts in SOL as *)
(* exact rationals.  A call of calculateEscrowCreationCosts or             *)
(* calculateExchangeCosts is a record of costCalls from its entry to its   *)
(* return; it awaits checkAtaExists twice, and each return of              *)
(* checkAtaExists is a step.  checkAtaExists answers from ataExists, or    *)
(* throws when the RPC fails.                                              *)
(***************************************************************************)

Add(x, y) ==
    IF IsNaN(x) \/ IsNaN(y) THEN NaN
    ELSE LET g == Gcd(x[2], y[2])
         IN  Rat(x[1] * (y[2] \div g) + y[1] * (x[2] \div g), x[2] * (y[2] \div g))

\* TRANSACTION_COSTS
FeeTables ==
    {[ESCROW_RENT |-> Rat(7, 1000), CONTRACT_FEE |-> Rat(1, 1000),
      PLATFORM_FEE |-> Rat(3, 1000), ATA_CREATION |-> Rat(2, 1000),
      TRANSACTION_FEE |-> Rat(1, 10000)],
     [ESCROW_RENT |-> Rat(2, 1000), CONTRACT_FEE |-> Rat(5, 1000),
      PLATFORM_FEE |-> Zero, ATA_CREATION |-> Rat(2, 1000),
      TRANSACTION_FEE |-> Rat(3, 10000)]}

\* mutant: the request token account is charged whether it exists or not
CalculateEscrowCreationCostsAlwaysRequestAta(f, depositAtaExists, requestAtaExists) ==
    LET escrowRent     == f.ESCROW_RENT
        contractFee    == f.CONTRACT_FEE
        platformFee    == f.PLATFORM_FEE
        depositAtaCost == IF depositAtaExists THEN Zero ELSE f.ATA_CREATION
        requestAtaCost == f.ATA_CREATION
    IN  [escrowRent       |-> escrowRent,
         contractFee      |-> contractFee,
         platformFee      |-> platformFee,
         depositAtaCost   |-> depositAtaCost,
         requestAtaCost   |-> requestAtaCost,
         depositAtaExists |-> depositAtaExists,
         requestAtaExists |-> requestAtaExists,
         totalCost        |-> Add(Add(Add(Add(escrowRent, contractFee), platformFee),
                                      depositAtaCost), requestAtaCost),
         breakdown        |-> [recoverable    |-> Add(Add(escrowRent, depositAtaCost),
                                                      requestAtaCost),
                               nonRecoverable |-> Add(contractFee, platformFee)]]

\* calculateEscrowCreationCosts from the results of its two checks on
CalculateEscrowCreationCosts(f, depositAtaExists, requestAtaExists) ==
    LET escrowRent     == f.ESCROW_RENT
        contractFee    == f.CONTRACT_FEE
        platformFee    == f.PLATFORM_FEE
        depositAtaCost == IF depositAtaExists THEN Zero ELSE f.ATA_CREATION
        requestAtaCost == IF requestAtaExists THEN Zero ELSE f.ATA_CREATION
    IN  [escrowRent       |-> escrowRent,
         contractFee      |-> contractFee,
         platformFee      |-> platformFee,
         depositAtaCost   |-> depositAtaCost,
         requestAtaCost   |-> requestAtaCost,
         depositAtaExists |-> depositAtaExists,
         requestAtaExists |-> requestAtaExists,
         totalCost        |-> Add(Add(Add(Add(escrowRent, contractFee), platformFee),
                                      depositAtaCost), requestAtaCost),
         breakdown        |-> [recoverable    |-> Add(Add(escrowRent, depositAtaCost),
                                                      requestAtaCost),
                               nonRecoverable |-> Add(contractFee, platformFee)]]

\* mutant: the contract fee is charged to the taker
CalculateExchangeCostsWithContractFee(f, takerAtaExists, takerReceiveAtaExists) ==
    LET transactionFee      == f.TRANSACTION_FEE
        contractFee         == f.CONTRACT_FEE
        takerAtaCost        == IF takerAtaExists THEN Zero ELSE f.ATA_CREATION
        takerReceiveAtaCost == IF takerReceiveAtaExists THEN Zero ELSE f.ATA_CREATION
    IN  [transactionFee        |-> transactionFee,
         contractFee           |-> contractFee,
         takerAtaCost          |-> takerAtaCost,
         takerReceiveAtaCost   |-> takerReceiveAtaCost,
         takerAtaExists        |-> takerAtaExists,
         takerReceiveAtaExists |-> takerReceiveAtaExists,
         totalCost             |-> Add(Add(Add(transactionFee, contractFee), takerAtaCost),
                                       takerReceiveAtaCost),
         breakdown             |-> [recoverable    |-> Add(takerAtaCost, takerReceiveAtaCost),
                                    nonRecoverable |-> Add(transactionFee, contractFee)]]

\* calculateExchangeCosts from the results of its two checks on
CalculateExchangeCosts(f, takerAtaExists, takerReceiveAtaExists) ==
    LET transactionFee      == f.TRANSACTION_FEE
        contractFee         == f.CONTRACT_FEE
        takerAtaCost        == IF takerAtaExists THEN Zero ELSE f.ATA_CREATION
        takerReceiveAtaCost == IF takerReceiveAtaExists THEN Zero ELSE f.ATA_CREATION
    IN  [transactionFee        |-> transactionFee,
         contractFee           |-> contractFee,
         takerAtaCost          |-> takerAtaCost,
         takerReceiveAtaCost   |-> takerReceiveAtaCost,
         takerAtaExists        |-> takerAtaExists,
         takerReceiveAtaExists |-> takerReceiveAtaExists,
         totalCost             |-> Add(Add(transactionFee, takerAtaCost), takerReceiveAtaCost),
         breakdown             |-> [recoverable    |-> Add(takerAtaCost, takerReceiveAtaCost),
                                    nonRecoverable |-> transactionFee]]

\* mutant: the token-account line is pushed whether or not anything is due,
\* and carries the deposit account's cost only
FormatCostBreakdownDepositOnly(costs) ==
    LET totalFees == Add(costs.contractFee, costs.platformFee)
    IN  [items          |-> <<[label |-> "Token accounts (recoverable)",
                               amount |-> costs.depositAtaCost, recoverable |-> TRUE],
                              [label |-> "Escrow accounts (recoverable)",
                               amount |-> costs.escrowRent, recoverable |-> TRUE],
                              [label |-> "Escrow fee",
                               amount |-> totalFees, recoverable |-> FALSE]>>,
         total          |-> costs.totalCost,
         recoverable    |-> costs.breakdown.recoverable,
         nonRecoverable |-> costs.breakdown.nonRecoverable]

\* formatCostBreakdown(costs) for the result of calculateEscrowCreationCosts
FormatCostBreakdown(costs) ==
    LET totalTokenAccountCost == Add(costs.depositAtaCost, costs.requestAtaCost)
        totalFees             == Add(costs.contractFee, costs.platformFee)
    IN  [items          |-> (IF Gt(totalTokenAccountCost, Zero)
                             THEN <<[label |-> "Token accounts (recoverable)",
                                     amount |-> totalTokenAccountCost,
                                     recoverable |-> TRUE]>>
                             ELSE <<>>)
                            \o <<[label |-> "Escrow accounts (recoverable)",
                                  amount |-> costs.escrowRent, recoverable |-> TRUE],
                                 [label |-> "Escrow fee",
                                  amount |-> totalFees, recoverable |-> FALSE]>>,
         total          |-> costs.totalCost,
         recoverable    |-> costs.breakdown.recoverable,
         nonRecoverable |-> costs.breakdown.nonRecoverable]


\* the mints of the modelled tokens
Mints == {"MINT_WHOLE", "MINT_WHOLE_2", "MINT_FRAC"}

\* the token accounts that may exist: wallet A may hold one for any mint,
\* wallet B holds none
AtaChoices == SUBSET {<<m, "A">> : m \in Mints}

\* ataUtils.checkAtaExists(mint, owner) when the RPC answers
CheckAtaExists(mint, owner) == <<mint, owner>> \in ataExists

\* a call on entry: the first check is issued, nothing has completed.
\* caller is "direct" or the view function that awaits the call
NewCall(id, caller, kind, owner, depositMint, requestMint) ==
    [id |-> id, caller |-> caller, kind |-> kind, owner |-> owner,
     depositMint |-> depositMint, requestMint |-> requestMint,
     issued |-> {1}, done |-> {}, firstExists |-> FALSE]

\* the mint of the first and of the second check of a call
FirstMint(c) == IF c.kind = "create" THEN c.depositMint ELSE c.requestMint
SecondMint(c) == IF c.kind = "create" THEN c.requestMint ELSE c.depositMint

\* what a call leaves behind when it returns or throws
Returned(c, costs) ==
    <<[threw |-> FALSE, call |-> c, costs |-> <<costs>>]>>
Threw(c) ==
    <<[threw |-> TRUE, call |-> c, costs |-> <<>>]>>

\* mutant: no catch and no finally; a rejected call leaves the displayed
\* cost and the loading flag as they were
AfterCalculateNoCatch(c, outcome) ==
    /\ IF c.caller = "updateTransactionCosts" /\ ~outcome[1].threw
       THEN /\ costBreakdown' = <<FormatCostBreakdown(outcome[1].costs[1])>>
            /\ loadingCosts' = FALSE
       ELSE UNCHANGED <<costBreakdown, loadingCosts>>
    /\ IF c.caller = "loadExchangeCosts" /\ ~outcome[1].threw
       THEN view' = [view EXCEPT !.exchangeCosts = "costs",
                                 !.loadingExchangeCosts = FALSE]
       ELSE UNCHANGED view

\* the caller after its await: try, catch and finally of
\* updateTransactionCosts (create view) and of loadExchangeCosts (detail
\* view); a direct call has no caller to resume
AfterCalculate(c, outcome) ==
    /\ IF c.caller = "updateTransactionCosts"
       THEN /\ costBreakdown' = IF outcome[1].threw THEN <<>>
                                ELSE <<FormatCostBreakdown(outcome[1].costs[1])>>
            /\ loadingCosts' = FALSE
       ELSE UNCHANGED <<costBreakdown, loadingCosts>>
    /\ IF c.caller = "loadExchangeCosts"
       THEN view' = [view EXCEPT !.exchangeCosts = IF outcome[1].threw THEN "null"
                                                  ELSE "costs",
                                 !.loadingExchangeCosts = FALSE]
       ELSE UNCHANGED view

\* the first checkAtaExists of a call returns or throws
FirstCheckDone ==
    \E c \in costCalls, ok \in BOOLEAN :
        /\ c.done = {}
        /\ IF ok
           THEN /\ costCalls' = (costCalls \ {c}) \cup
                        {[c EXCEPT !.done = {1}, !.issued = {1, 2},
                                   !.firstExists = CheckAtaExists(FirstMint(c), c.owner)]}
                /\ UNCHANGED <<costResult, costBreakdown, loadingCosts, view>>
           ELSE /\ costCalls' = costCalls \ {c}
                /\ costResult' = Threw(c)
                /\ AfterCalculate(c, Threw(c))
        /\ UNCHANGED <<convVars, serviceVars, storeVars, formVars, fees, ataExists, costSeq,
                       acct, now, wallet, loads, balPending, costPending, exchange, tx>>

\* the second checkAtaExists returns or throws; the costs are calculated
SecondCheckDone ==
    \E c \in costCalls, ok \in BOOLEAN :
        /\ c.done = {1}
        /\ costCalls' = costCalls \ {c}
        /\ LET secondExists == CheckAtaExists(SecondMint(c), c.owner)
               finished     == [c EXCEPT !.done = {1, 2}]
               costs        == IF c.kind = "create"
                               THEN CalculateEscrowCreationCosts(fees, c.firstExists,
                                                                 secondExists)
                               ELSE CalculateExchangeCosts(fees, c.firstExists, secondExists)
               outcome      == IF ok THEN Returned(finished, costs) ELSE Threw(c)
           IN  /\ costResult' = outcome
               /\ AfterCalculate(c, outcome)
        /\ UNCHANGED <<convVars, serviceVars, storeVars, formVars, fees, ataExists, costSeq,
                       acct, now, wallet, loads, balPending, costPending, exchange, tx>>

\* the estimator called once, with the arguments of an escrow of two mints
EstimatorInit ==
    /\ ServicesParked
    /\ ConvParked
    /\ DetailParked
    /\ StoreInit
    /\ fees \in FeeTables
    /\ ataExists \in AtaChoices
    /\ costCalls = {}
    /\ costSeq = 0
    /\ costResult = <<>>
    /\ costBreakdown = <<>>
    /\ loadingCosts = FALSE

CallCalculate ==
    \E kind \in {"create", "exchange"}, owner \in Wallets, d \in Mints, r \in Mints :
        /\ costSeq = 0
        /\ d # r
        /\ costSeq' = 1
        /\ costCalls' = {NewCall(1, "direct", kind, owner, d, r)}
        /\ UNCHANGED <<convVars, serviceVars, detailVars, storeVars, formVars, fees, ataExists,
                       costResult, costBreakdown, loadingCosts>>

\* formatCostBreakdown applied to the costs that were returned
CallFormatCostBreakdown ==
    /\ costResult # <<>>
    /\ ~costResult[1].threw
    /\ costResult[1].call.kind = "create"
    /\ costBreakdown = <<>>
    /\ costBreakdown' = <<FormatCostBreakdown(costResult[1].costs[1])>>
    /\ UNCHANGED <<convVars, serviceVars, detailVars, storeVars, formVars, fees, ataExists, costCalls,
                   costSeq, costResult, loadingCosts>>

EstimatorNext ==
    \/ CallCalculate
    \/ FirstCheckDone
    \/ SecondCheckDone
    \/ CallFormatCostBreakdown

SpecEstimator == EstimatorInit /\ [][EstimatorNext]_vars


----------------------------------------------------------------------------
(* Claims on the cost estimator *)

CostsReturned(kind) ==
    costResult # <<>> /\ ~costResult[1].threw /\ costResult[1].call.kind = kind

\* how many of the two token accounts of a call's owner are not on chain
MissingAccounts(c) ==
    Cardinality({m \in {c.depositMint, c.requestMint} : <<m, c.owner>> \notin ataExists})

\* C11: for every combination of deposit-ATA and request-ATA existence for
\* the maker, calculateEscrowCreationCosts returns totalCost = ESCROW_RENT +
\* CONTRACT_FEE + PLATFORM_FEE + ATA_CREATION * (number of the two accounts
\* that do not exist)
C11_CreationCost ==
    CostsReturned("create") =>
        costResult[1].costs[1].totalCost =
            Add(Add(Add(fees.ESCROW_RENT, fees.CONTRACT_FEE), fees.PLATFORM_FEE),
                Mul(fees.ATA_CREATION, Num(MissingAccounts(costResult[1].call))))

\* a creation estimate has returned for a maker who holds the deposit
\* account and lacks the request account
C11_Witness ==
    /\ CostsReturned("create")
    /\ <<costResult[1].call.depositMint, costResult[1].call.owner>> \in ataExists
    /\ <<costResult[1].call.requestMint, costResult[1].call.owner>> \notin ataExists

\* C12: for every combination of request-ATA and deposit-receive-ATA
\* existence for the taker, calculateExchangeCosts returns totalCost =
\* TRANSACTION_FEE + ATA_CREATION * (number of the two accounts that do not
\* exist); the contract fee is returned as a field and is part of neither
\* totalCost nor recoverable nor nonRecoverable
C12_ExchangeCost ==
    CostsReturned("exchange") =>
        LET costs  == costResult[1].costs[1]
            ataDue == Mul(fees.ATA_CREATION, Num(MissingAccounts(costResult[1].call)))
        IN  /\ costs.totalCost = Add(fees.TRANSACTION_FEE, ataDue)
            /\ costs.contractFee = fees.CONTRACT_FEE
            /\ costs.breakdown.recoverable = ataDue
            /\ costs.breakdown.nonRecoverable = fees.TRANSACTION_FEE

\* an exchange estimate has returned for a taker who lacks both accounts
C12_Witness ==
    /\ CostsReturned("exchange")
    /\ MissingAccounts(costResult[1].call) = 2

RECURSIVE SumAmounts(_)
SumAmounts(items) ==
    IF items = <<>> THEN Zero
    ELSE Add(items[1].amount, SumAmounts(Tail(items)))

ItemsFlagged(items, flag) == SelectSeq(items, LAMBDA it : it.recoverable = flag)

C15_ChecksConcurrent ==
    /\ \A c \in costCalls : (1 \in c.issued /\ 1 \notin c.done) => 2 \in c.issued
    /\ (costResult # <<>> /\ ~costResult[1].threw) => costResult[1].call.done = {1, 2}


----------------------------------------------------------------------------
(* The callers of the estimator: the cost panel of the create view         *)
(* (updateTransactionCosts and the watcher on the token pair and the       *)
(* wallet) and loadExchangeCosts of the detail view.  One of the two views *)
(* is on screen.  The detail view starts loaded, with its balance and cost *)
(* fetches settled, and loadExchangeCosts is applied to it.                *)
(***************************************************************************)

MaxEstimates == 2

CreateViewOpen == exchange = "parked"
DetailViewOpen == exchange # "parked"

\* the mints of the escrow shown by the detail view
EscrowDepositMint == "MINT_FRAC"
EscrowRequestMint == "MINT_WHOLE"

\* the tokens picked while the cost panel is watched
CostTokens == {tok \in Tokens : tok.mint \in {"MINT_WHOLE", "MINT_FRAC"}}

\* updateTransactionCosts up to its await, for the token pair and wallet
\* the watcher has just seen
UpdateTransactionCosts(ot, rt, w) ==
    IF ~Connected(w) \/ ot = <<>> \/ rt = <<>>
    THEN /\ costBreakdown' = <<>>
         /\ UNCHANGED <<loadingCosts, costCalls, costSeq>>
    ELSE /\ loadingCosts' = TRUE
         /\ costSeq' = costSeq + 1
         /\ costCalls' = costCalls \cup
                {NewCall(costSeq + 1, "updateTransactionCosts", "create", w,
                         ot[1].mint, rt[1].mint)}
         /\ UNCHANGED costBreakdown

\* selectToken -> setOfferToken, then the watcher of the create view
OfferTokenChanged ==
    \E tok \in CostTokens :
        /\ CreateViewOpen
        /\ costSeq < MaxEstimates
        /\ offerToken # <<tok>>
        /\ offerToken' = <<tok>>
        /\ initCall' = <<>>
        /\ UpdateTransactionCosts(<<tok>>, requestToken, wallet)
        /\ UNCHANGED <<convVars, serviceVars, detailVars, storeVars, offerAmount, requestToken,
                       requestAmount, settings, errorsForm, errorsTransaction,
                       fees, ataExists, costResult>>

RequestTokenChanged ==
    \E tok \in CostTokens :
        /\ CreateViewOpen
        /\ costSeq < MaxEstimates
        /\ requestToken # <<tok>>
        /\ requestToken' = <<tok>>
        /\ initCall' = <<>>
        /\ UpdateTransactionCosts(offerToken, <<tok>>, wallet)
        /\ UNCHANGED <<convVars, serviceVars, detailVars, storeVars, offerToken, offerAmount,
                       requestAmount, settings, errorsForm, errorsTransaction,
                       fees, ataExists, costResult>>

\* clearToken, then the watcher of the create view
OfferTokenCleared ==
    /\ CreateViewOpen
    /\ offerToken # <<>>
    /\ offerToken' = <<>>
    /\ offerAmount' = SetAmountOf(UpdateAmountOf(offerToken, InitialAmount))
    /\ initCall' = <<>>
    /\ UpdateTransactionCosts(<<>>, requestToken, wallet)
    /\ UNCHANGED <<convVars, serviceVars, detailVars, storeVars, requestToken, requestAmount,
                   settings, errorsForm, errorsTransaction, fees, ataExists, costResult>>

RequestTokenCleared ==
    /\ CreateViewOpen
    /\ requestToken # <<>>
    /\ requestToken' = <<>>
    /\ requestAmount' = SetAmountOf(UpdateAmountOf(requestToken, InitialAmount))
    /\ initCall' = <<>>
    /\ UpdateTransactionCosts(offerToken, <<>>, wallet)
    /\ UNCHANGED <<convVars, serviceVars, detailVars, storeVars, offerToken, offerAmount,
                   settings, errorsForm, errorsTransaction, fees, ataExists, costResult>>

\* the wallet connects, disconnects or switches while the create view is on
\* screen: the watcher on connected and publicKey
WalletChanged ==
    \E w \in ({"null"} \cup Wallets) \ {wallet} :
        /\ CreateViewOpen
        /\ costSeq < MaxEstimates
        /\ wallet' = w
        /\ UpdateTransactionCosts(offerToken, requestToken, w)
        /\ UNCHANGED <<convVars, serviceVars, storeVars, formVars, fees, ataExists, costResult,
                       acct, now, view, loads, balPending, costPending, exchange, tx>>

\* the detail view after loadEscrow, loadRequestTokenBalance and
\* loadExchangeCosts have settled for wallet w
LoadedView(account, t, w, balance, costs) ==
    LET v1 == [InitialView EXCEPT !.escrow = <<BuildSnapshot(account, t)>>,
                                  !.loading = FALSE]
        v2 == FlushWatchers(InitialView, WatchEscrow(v1, w))
        v3 == FlushWatchers(v2, [v2 EXCEPT !.requestTokenBalance = balance,
                                           !.loadingRequestTokenBalance = FALSE])
    IN  [v3 EXCEPT !.exchangeCosts = costs, !.loadingExchangeCosts = FALSE]

\* loadExchangeCosts up to its await
LoadExchangeCosts ==
    /\ DetailViewOpen
    /\ costSeq < MaxEstimates
    /\ view' = LoadExchangeCostsSync(view, wallet)
    /\ IF IssuesFetch(view, wallet)
       THEN /\ costSeq' = costSeq + 1
            /\ costCalls' = costCalls \cup
                   {NewCall(costSeq + 1, "loadExchangeCosts", "exchange", wallet,
                            EscrowDepositMint, EscrowRequestMint)}
       ELSE UNCHANGED <<costCalls, costSeq>>
    /\ UNCHANGED <<convVars, serviceVars, storeVars, formVars, fees, ataExists, costResult,
                   costBreakdown, loadingCosts,
                   acct, now, wallet, loads, balPending, costPending, exchange, tx>>

\* wallet A holds a token account for MINT_WHOLE; no other account exists
CostAtaChoices == {{<<"MINT_WHOLE", "A">>}}

\* the fee table that charges a platform fee
CostFeeTables == {f \in FeeTables : f.PLATFORM_FEE # Zero}

\* the amounts typed into the form before the tokens are picked
TypedAmounts == {InitialAmount, <<"2">>}

CostInit ==
    /\ ServicesParked
    /\ ConvParked
    /\ escrows = <<>>
    /\ loadingEscrows = FALSE
    /\ escrowsError = "null"
    /\ escrowsPending = {}
    /\ offerToken = <<>>
    /\ requestToken = <<>>
    /\ settings = InitialSettings
    /\ errorsForm = {}
    /\ errorsTransaction = "null"
    /\ initCall = <<>>
    /\ fees \in CostFeeTables
    /\ ataExists \in CostAtaChoices
    /\ costCalls = {}
    /\ costSeq = 0
    /\ costResult = <<>>
    /\ costBreakdown = <<>>
    /\ loadingCosts = FALSE
    /\ \/ /\ DetailViewParked
          /\ wallet \in {"null"} \cup Wallets
          /\ \E typed \in TypedAmounts :
                 offerAmount = typed /\ requestAmount = typed
       \/ /\ offerAmount = InitialAmount
          /\ requestAmount = InitialAmount
          /\ acct = <<DefaultAccount>>
          /\ now = 1
          /\ wallet \in Wallets
          /\ \E balance \in BalanceChoices, costs \in {"null", "costs"} :
                 view = LoadedView(DefaultAccount, 1, wallet, balance, costs)
          /\ loads = 0
          /\ balPending = FALSE
          /\ costPending = FALSE
          /\ exchange = "idle"
          /\ tx = NoTx

CostNext ==
    \/ OfferTokenChanged
    \/ RequestTokenChanged
    \/ OfferTokenCleared
    \/ RequestTokenCleared
    \/ WalletChanged
    \/ LoadExchangeCosts
    \/ (DetailViewOpen /\ DisconnectWallet)
    \/ FirstCheckDone
    \/ SecondCheckDone

SpecCost == CostInit /\ [][CostNext]_vars


\* a step in which a cost estimate ends by throwing
EstimateThrows ==
    /\ costResult' # costResult
    /\ costResult' # <<>>
    /\ costResult'[1].threw

\* C14: when an account-existence check throws during a cost estimate, the
\* caller catches it: the displayed cost (costBreakdown of the create view,
\* exchangeCosts of the detail view) becomes null, the cost-loading flag
\* becomes false, and canSubmit, canFill and canExchange are what they were
\* before the failure.
C14_FailedEstimateDoesNotBlock ==
    [][EstimateThrows =>
        /\ (costResult'[1].call.caller = "updateTransactionCosts" =>
                /\ costBreakdown' = <<>>
                /\ loadingCosts' = FALSE
                /\ CanSubmitOf(offerToken', offerAmount', requestToken',
                               requestAmount', settings', now', wallet')
                       = CanSubmit)
        /\ (costResult'[1].call.caller = "loadExchangeCosts" =>
                /\ view'.exchangeCosts = "null"
                /\ view'.loadingExchangeCosts = FALSE
                /\ CanFillOf(view', wallet') = CanFillOf(view, wallet)
                /\ CanExchangeOf(view', wallet') = CanExchangeOf(view, wallet))]_vars

\* an estimate of the create view has thrown while the form could be
\* submitted; the panel shows no cost and is not loading
C14_Witness ==
    /\ costResult # <<>>
    /\ costResult[1].threw
    /\ costResult[1].call.caller = "updateTransactionCosts"
    /\ costBreakdown = <<>>
    /\ ~loadingCosts
    /\ costCalls = {}
    /\ CanSubmit


\* the breakdown of the token pair and wallet the create view shows now,
\* which are the arguments of the estimate requested last
CurrentBreakdown ==
    FormatCostBreakdown(
        CalculateEscrowCreationCosts(fees,
                                     CheckAtaExists(offerToken[1].mint, wallet),
                                     CheckAtaExists(requestToken[1].mint, wallet)))

\* C16: when cost estimates of the create view overlap and have all
\* completed, in any order, a displayed cost breakdown is the one computed
\* for the estimate requested last (the current token pair and wallet); the
\* result of a superseded estimate is not displayed.
C16_SupersededResultNotApplied ==
    (/\ CreateViewOpen
     /\ Connected(wallet) /\ offerToken # <<>> /\ requestToken # <<>>
     /\ costCalls = {}
     /\ costBreakdown # <<>>) =>
        costBreakdown[1] = CurrentBreakdown


----------------------------------------------------------------------------
(* A missing escrow account and an escrow with nothing left *)

\* C17: when the fetch of the escrow account returns null, loadEscrow ends
\* with escrow = null, error = 'Escrow not found' and loading = false, and
\* no snapshot is built; an account that exists with
\* tokensDepositRemaining = 0 gives a snapshot with status 'filled' and no
\* error.  'Escrow not found' is shown only for a missing account, and a
\* snapshot only for an account that exists.
C17_NotFoundIsNotFilled ==
    /\ [][(LoadEscrowDone /\ acct = <<>>) =>
            /\ view'.escrow = <<>>
            /\ view'.error = "Escrow not found"
            /\ view'.loading = FALSE]_vars
    /\ [](view.error = "Escrow not found" =>
            acct = <<>> /\ view.escrow = <<>> /\ ~view.loading)
    /\ [](HasEscrow =>
            /\ acct # <<>>
            /\ view.error = "null"
            /\ ~view.loading
            /\ (acct[1].tokensDepositRemaining = 0 => Esc(view).status = "filled"))

\* the account was not found: the view shows the error and no escrow
C17_Witness ==
    /\ acct = <<>>
    /\ loads = 0
    /\ view.escrow = <<>>
    /\ view.error = "Escrow not found"
    /\ ~view.loading


----------------------------------------------------------------------------
(* The converters applied to every short string a caller may pass as an    *)
(* amount: digits, the decimal point, and the letter of an exponent        *)
(***************************************************************************)

MaxTypedLen == 3

TypedChars == {"0", "1", "5", ".", "e"}

RECURSIVE TypedStrings(_)
TypedStrings(k) ==
    IF k = 0 THEN {<<>>}
    ELSE LET shorter == TypedStrings(k - 1)
         IN  shorter \cup {s \o <<c>> : s \in {t \in shorter : Len(t) = k - 1},
                                         c \in TypedChars}

TypedInit ==
    /\ ServicesParked
    /\ DetailParked
    /\ StoreInit
    /\ CostParked
    /\ cvIn \in TypedStrings(MaxTypedLen)
    /\ cvDec \in 0..MaxDecimals
    /\ cvOp = "init"
    /\ cvRaw = NoRaw
    /\ cvNum = Zero
    /\ cvVal = NoVal
    /\ cvOut = <<>>

\* fromSmallestUnits(x, d)
CallFromSmallestUnits ==
    /\ cvOp = "init"
    /\ cvOp' = "fromSmallestUnits"
    /\ cvNum' = FromSmallestUnits(cvIn, cvDec)
    /\ UNCHANGED <<cvOut, cvIn, cvDec, cvRaw, cvVal, outsideConv>>

TypedNext == CallToSmallestUnits \/ CallFromSmallestUnits

SpecTyped == TypedInit /\ [][TypedNext]_vars

\* C18: for every string amount and every decimals count, toSmallestUnits
\* and fromSmallestUnits return a value and do not raise; for the empty
\* string and for "0" they return 0.
C18_ConvertersNeverRaise ==
    /\ (cvOp = "toSmallestUnits" =>
            /\ ~cvRaw.threw
            /\ (cvIn \in {<<>>, <<"0">>} => cvRaw.value = 0))
    /\ (cvOp = "fromSmallestUnits" =>
            (cvIn \in {<<>>, <<"0">>} => cvNum = Zero))


----------------------------------------------------------------------------
(* formatDecimals applied to numbers of every magnitude band.  The inputs  *)
(* are decimal fractions m / 10^e; where such a number lies exactly        *)
(* between two neighbours at the precision used (a tie, which no double    *)
(* with a fractional part is), either neighbour is accepted.               *)
(***************************************************************************)

MaxShift == 7

Mantissas == {1, 5, 15, 99, 100, 999, 1000, 9995, 99995, 999995, 9999995, 1234567}

FormatInputs ==
    {Rat(sgn * m, Pow10(e)) : sgn \in {1, -1}, m \in Mantissas, e \in 0..MaxShift}
        \cup {Zero, NaN}

FormatInit ==
    /\ ServicesParked
    /\ DetailParked
    /\ StoreInit
    /\ CostParked
    /\ cvIn = <<>>
    /\ cvDec = 0
    /\ cvOp = "init"
    /\ cvRaw = NoRaw
    /\ cvNum \in FormatInputs
    /\ cvVal = NoVal
    /\ cvOut = <<>>

\* formatDecimals(v)
CallFormatDecimals ==
    /\ cvOp = "init"
    /\ cvOp' = "formatDecimals"
    /\ cvOut' = FormatDecimals(cvNum)
    /\ UNCHANGED <<cvIn, cvDec, cvRaw, cvNum, cvVal, outsideConv>>

FormatNext == CallFormatDecimals

SpecFormat == FormatInit /\ [][FormatNext]_vars

\* the fractional digits the claim gives to a magnitude
BandDigits(a) ==
    IF Lt(a, Num(1)) THEN 6
    ELSE IF Lt(a, Num(10)) THEN 4
    ELSE IF Lt(a, Num(100)) THEN 2
    ELSE IF Lt(a, Num(1000)) THEN 1
    ELSE 0

\* half a unit of the k-th fractional digit
HalfUnit(k) == Rat(1, 2 * Pow10(k))

\* the distance from a >= 0 to the nearest integer
ToNearestInteger(a) ==
    LET r == Sub(a, MathFloor(a))
    IN  MathMin(r, Sub(Num(1), r))

\* a printed with k fractional digits shows only zeros after the point
\* (certainly so / possibly so, the two differ at a tie only)
SurelyAllZero(a, k) == k > 0 /\ Lt(ToNearestInteger(a), HalfUnit(k))
MaybeAllZero(a, k) == k > 0 /\ Le(ToNearestInteger(a), HalfUnit(k))

\* s is digits, or digits, a point and k digits
IsFixedString(s, k) ==
    LET parts == Split(s, ".")
    IN  /\ Len(parts) = (IF k = 0 THEN 1 ELSE 2)
        /\ parts[1] # <<>> /\ AllDigits(parts[1])
        /\ (k > 0 => Len(parts[2]) = k /\ AllDigits(parts[2]))

\* s is a >= 0 printed with k fractional digits, rounded to the nearest
ShowsAt(s, a, k) ==
    /\ IsFixedString(s, k)
    /\ Le(Sub(a, ParseFloat(s)), HalfUnit(k))
    /\ Le(Sub(ParseFloat(s), a), HalfUnit(k))

\* C19: formatDecimals(v) for non-zero v prints |v| with 6 fractional
\* digits when |v| < 1, 4 when 1 <= |v| < 10, 2 when 10 <= |v| < 100, 1 when
\* 100 <= |v| < 1000 and 0 when |v| >= 1000; when every fractional digit so
\* produced is 0 it prints exactly 1 fractional digit instead; a negative v
\* keeps its minus sign in front of the magnitude; formatDecimals(0) is "0".
C19_MagnitudeBands ==
    cvOp = "formatDecimals" =>
        IF cvNum = Zero THEN cvOut = <<"0">>
        ELSE IF IsNaN(cvNum) THEN TRUE
        ELSE LET a      == <<Abs(cvNum[1]), cvNum[2]>>
                 minus  == cvOut # <<>> /\ cvOut[1] = "-"
                 shown  == IF minus THEN Tail(cvOut) ELSE cvOut
                 digits == BandDigits(a)
             IN  /\ minus <=> cvNum[1] < 0
                 /\ \/ ~SurelyAllZero(a, digits) /\ ShowsAt(shown, a, digits)
                    \/ MaybeAllZero(a, digits) /\ ShowsAt(shown, a, 1)

\* formatDecimals(-100) is "-100.0": one fractional digit, the minus sign kept
C19_Witness ==
    /\ cvOp = "formatDecimals"
    /\ cvNum = Num(-100)
    /\ cvOut = <<"-", "1", "0", "0", ".", "0">>


----------------------------------------------------------------------------
(* The origin of the fill amount that exchangeEscrow converts *)

\* exchangeEscrow reads the text of fillAmount: currentFillAmount parses it
\* for an escrow that allows partial fills, and requestAmountRaw (and, short
\* of a full fill, depositAmountRaw) is toSmallestUnits of the result
ConvertsFillAmount(v) ==
    /\ v.escrow # <<>>
    /\ Esc(v).allowPartialFill
    /\ v.fillAmount # <<>>
    /\ ~IsNaN(ParseFloat(v.fillAmount))

\* a step of exchangeEscrow that submits the transaction
SubmitsExchange == exchange = "idle" /\ exchange' = "tx"

\* C20: no amount that exchangeEscrow passes to toSmallestUnits for a
\* transaction comes from a string written by formatDecimals (by a
\* percentage button or by a watcher).
C20_FormatterOutputNotConverted ==
    [][SubmitsExchange =>
        ~(ConvertsFillAmount(view) /\ view.fillAmountFrom = "formatDecimals")]_vars

----------------------------------------------------------------------------
(* fetchTokenInfo of the token registry composable: the decimals of a      *)
(* TokenInfo.  A nullable number is <<>> (null or undefined) or <<n>>.     *)
(***************************************************************************)

MaxMintDecimals == 9
DefaultDecimals == 9

\* the truthiness of a nullable number
Truthy(x) == x # <<>> /\ x[1] # 0

\* x || null
OrNull(x) == IF Truthy(x) THEN x ELSE <<>>

\* one element of mainnetTokens.map(token => ({ ..., decimals: token.decimals || null }))
RegistryListEntry(token) == [decimals |-> OrNull(token.decimals)]

\* the entries the registry can hold for the mint: none, or one with any decimals
RegistryEntries ==
    {<<>>} \cup {<<[decimals |-> <<d>>]>> : d \in 0..MaxMintDecimals}

\* what getParsedAccountInfo can say about the mint
ChainAnswers == {<<>>} \cup {<<d>> : d \in 0..MaxMintDecimals}

\* fetchTokenInfo(mint) has been called and awaits loadTokenRegistryList()
RegistryInit ==
    /\ RetryParked
    /\ RouteParked
    /\ LimiterParked
    /\ BalancesParked
    /\ ConvParked
    /\ DetailParked
    /\ StoreInit
    /\ CostParked
    /\ tiEntry \in RegistryEntries
    /\ tiResolves \in BOOLEAN
    /\ tiChain \in ChainAnswers
    /\ tiPc = "registry"
    /\ tiRegistryToken = <<>>
    /\ tiInfo = <<>>

\* loadTokenRegistryList() returns the mapped list, or [] when resolve() failed;
\* registry.find(t => t.mint === mintAddress)
LoadTokenRegistryListDone ==
    /\ tiPc = "registry"
    /\ tiRegistryToken' =
            IF tiResolves /\ tiEntry # <<>> THEN <<RegistryListEntry(tiEntry[1])>> ELSE <<>>
    /\ tiPc' = "metadata"
    /\ UNCHANGED <<tiEntry, tiResolves, tiChain, tiInfo, outsideRegistry>>

\* registryToken?.decimals || null
RegistryDecimals(registryToken) ==
    IF registryToken = <<>> THEN <<>> ELSE OrNull(registryToken[1].decimals)

\* the metadata fetch returns (fetchTokenMetadata catches its own errors);
\* decimals = registryToken?.decimals || null; with a truthy value the
\* TokenInfo is returned, otherwise fetchTokenDecimals is awaited
MetadataFetched ==
    /\ tiPc = "metadata"
    /\ IF Truthy(RegistryDecimals(tiRegistryToken))
       THEN /\ tiInfo' = <<[decimals |-> RegistryDecimals(tiRegistryToken)[1]]>>
            /\ tiPc' = "done"
       ELSE /\ tiPc' = "chain"
            /\ UNCHANGED tiInfo
    /\ UNCHANGED <<tiEntry, tiResolves, tiChain, tiRegistryToken, outsideRegistry>>

\* the decimals chosen once fetchTokenDecimals has answered:
\* if (!decimals) decimals = 9
DecimalsOrDefault(answer) == IF Truthy(answer) THEN answer[1] ELSE DefaultDecimals

\* fetchTokenDecimals(mint) returns parsed.info.decimals or null
FetchTokenDecimalsDone ==
    /\ tiPc = "chain"
    /\ tiInfo' = <<[decimals |-> DecimalsOrDefault(tiChain)]>>
    /\ tiPc' = "done"
    /\ UNCHANGED <<tiEntry, tiResolves, tiChain, tiRegistryToken, outsideRegistry>>

RegistryNext ==
    \/ LoadTokenRegistryListDone
    \/ MetadataFetched
    \/ FetchTokenDecimalsDone

SpecRegistry == RegistryInit /\ [][RegistryNext]_vars

\* C21: whenever the chain can say the mint's decimals, the TokenInfo that
\* fetchTokenInfo returns carries exactly those decimals, 0 included.
C21_DecimalsFromChain ==
    (tiPc = "done" /\ tiChain # <<>>) => tiInfo[1].decimals = tiChain[1]

----------------------------------------------------------------------------
(* retryWithBackoff of metaplex.js, called with an RPC function that may   *)
(* resolve or reject at any time.  Time is counted in milliseconds and     *)
(* advances in steps of TickMs.                                            *)
(***************************************************************************)

MaxRetries == 2
TickMs == 250
MaxTicks == 8
BackoffBase == 500
RateLimitStatus == 429

Pow2(k) == IF k = 0 THEN 1 ELSE IF k = 1 THEN 2 ELSE IF k = 2 THEN 4 ELSE 8

\* String.prototype.includes with a text argument
IncludesText(s, sub) ==
    \E i \in 0..(Len(s) - Len(sub)) : SubSeq(s, i + 1, i + Len(sub)) = sub

Text429 == <<"4", "2", "9">>
TextTooManyRequests ==
    <<"T", "o", "o", " ", "M", "a", "n", "y", " ", "R", "e", "q", "u", "e", "s", "t", "s">>
TextFetchFailed == <<"f", "e", "t", "c", "h", " ", "f", "a", "i", "l", "e", "d">>

\* an error without any of the properties the classification reads
PlainError ==
    [message |-> TextFetchFailed, code |-> 0, status |-> 0, responseStatus |-> 0,
     statusCode |-> 0]

\* the errors fn can reject with: a plain failure, and one error for each
\* property that can carry the 429
RpcErrors ==
    {PlainError,
     [PlainError EXCEPT !.message = Text429 \o <<" ">> \o TextTooManyRequests],
     [PlainError EXCEPT !.message = TextTooManyRequests],
     [PlainError EXCEPT !.code = RateLimitStatus],
     [PlainError EXCEPT !.status = RateLimitStatus],
     [PlainError EXCEPT !.responseStatus = RateLimitStatus],
     [PlainError EXCEPT !.statusCode = RateLimitStatus],
     [PlainError EXCEPT !.code = 500]}

\* isRateLimit
IsRateLimit(error) ==
    \/ IncludesText(error.message, Text429)
    \/ IncludesText(error.message, TextTooManyRequests)
    \/ error.code = RateLimitStatus
    \/ error.status = RateLimitStatus
    \/ error.responseStatus = RateLimitStatus
    \/ error.statusCode = RateLimitStatus

\* a retry decision that forgets the retry budget
ShouldRetryUnbounded(error, attempt, maxRetries) == IsRateLimit(error)

\* isRateLimit && attempt < maxRetries
ShouldRetry(error, attempt, maxRetries) == IsRateLimit(error) /\ attempt < maxRetries

\* 500 * Math.pow(2, attempt)
BackoffDelay(attempt) == BackoffBase * Pow2(attempt)

\* retryWithBackoff(fn, maxRetries) has been called: attempt 0, fn called once
RetryInit ==
    /\ ConvParked
    /\ DetailParked
    /\ StoreInit
    /\ CostParked
    /\ RegistryParked
    /\ RouteParked
    /\ LimiterParked
    /\ BalancesParked
    /\ rbMaxRetries \in 0..MaxRetries
    /\ rbAttempt = 0
    /\ rbPc = "await"
    /\ rbClock = 0
    /\ rbWake = 0
    /\ rbCalls = <<0>>
    /\ rbErrors = <<>>
    /\ rbThrown = <<>>

\* time passes while fn is in flight or the backoff timer runs
RetryTick ==
    /\ rbPc \in {"await", "sleep"}
    /\ rbClock < MaxTicks * TickMs
    /\ rbClock' = rbClock + TickMs
    /\ UNCHANGED <<rbMaxRetries, rbAttempt, rbPc, rbWake, rbCalls, rbErrors, rbThrown,
                   outsideRetry>>

\* fn resolves: return await fn()
FnResolves ==
    /\ rbPc = "await"
    /\ rbPc' = "returned"
    /\ UNCHANGED <<rbMaxRetries, rbAttempt, rbClock, rbWake, rbCalls, rbErrors, rbThrown,
                   outsideRetry>>

\* fn rejects: the catch block
FnRejects ==
    \E error \in RpcErrors :
        /\ rbPc = "await"
        /\ rbErrors' = Append(rbErrors, [at |-> rbClock, error |-> error])
        /\ IF ShouldRetry(error, rbAttempt, rbMaxRetries)
           THEN /\ rbPc' = "sleep"
                /\ rbWake' = rbClock + BackoffDelay(rbAttempt)
                /\ UNCHANGED rbThrown
           ELSE /\ rbPc' = "threw"
                /\ rbThrown' = <<error>>
                /\ UNCHANGED rbWake
        /\ UNCHANGED <<rbMaxRetries, rbAttempt, rbClock, rbCalls, outsideRetry>>

\* the backoff timer fires: continue, attempt++, fn is called again
BackoffElapsed ==
    /\ rbPc = "sleep"
    /\ rbClock >= rbWake
    /\ rbAttempt' = rbAttempt + 1
    /\ rbCalls' = Append(rbCalls, rbClock)
    /\ rbPc' = "await"
    /\ UNCHANGED <<rbMaxRetries, rbClock, rbWake, rbErrors, rbThrown, outsideRetry>>

RetryNext ==
    \/ RetryTick
    \/ FnResolves
    \/ FnRejects
    \/ BackoffElapsed

SpecRetry == RetryInit /\ [][RetryNext]_vars

\* the first rejection carried a 429 in one of the places the code looks at
FirstWasRateLimited ==
    LET e == rbErrors[1].error
    IN  \/ IncludesText(e.message, Text429)
        \/ IncludesText(e.message, TextTooManyRequests)
        \/ RateLimitStatus \in {e.code, e.status, e.responseStatus, e.statusCode}

\* C22: with maxRetries = 1 the RPC function is called at most twice; it is
\* called a second time only after a first rejection that was a rate-limit
\* error, and no sooner than 500 ms after that rejection; another first
\* error is thrown after the single call, and the error of a second
\* rejection is thrown without a third call.
C22_RetryOnceAfterBackoff ==
    rbMaxRetries = 1 =>
        /\ Len(rbCalls) <= 2
        /\ (Len(rbCalls) = 2 =>
                /\ Len(rbErrors) >= 1
                /\ FirstWasRateLimited
                /\ rbCalls[2] >= rbErrors[1].at + BackoffBase)
        /\ ((Len(rbErrors) >= 1 /\ ~FirstWasRateLimited) =>
                /\ rbPc = "threw"
                /\ Len(rbCalls) = 1
                /\ rbThrown = <<rbErrors[1].error>>)
        /\ (Len(rbErrors) = 2 =>
                /\ rbPc = "threw"
                /\ Len(rbCalls) = 2
                /\ rbThrown = <<rbErrors[2].error>>)
        /\ Len(rbErrors) <= 2

\* a rate-limited first call, a second call after the backoff, which fails too
C22_Witness ==
    /\ rbMaxRetries = 1
    /\ Len(rbCalls) = 2
    /\ Len(rbErrors) = 2
    /\ rbPc = "threw"
    /\ rbErrors[1].error.statusCode = RateLimitStatus
    /\ rbCalls[2] > rbErrors[1].at + BackoffBase

----------------------------------------------------------------------------
(* Whole numbers for a request token without decimals *)

\* C23: while the escrow on screen asks for a token with 0 decimals, the
\* text that a percentage button, a watcher or the input handler last wrote
\* into fillAmount has no non-zero digit after a decimal point.
C23_WholeFillAmountForZeroDecimals ==
    (view # <<>> /\ view.escrow # <<>> /\ Esc(view).requestDecimals = 0
        /\ view.fillAmountFrom # "none")
        => ~HasNonZeroFraction(view.fillAmount)

----------------------------------------------------------------------------
(* The two amounts of one exchange *)

\* the deposit amount handed to exchangeEscrowTx, in display units of the
\* deposit token
SubmittedDeposit(t, v) == Rat(t.amount, Pow10(Esc(v).depositDecimals))

\* C26: when exchangeEscrow submits for a taker whom canFill and canExchange
\* let through, the deposit amount it asks for, valued at the escrow's price,
\* is no more than the fill amount the taker commits, and it is no more than
\* the remaining deposit of the escrow on screen.
C26_DepositMatchesFillAmount ==
    [][(SubmitsExchange /\ CanFillOf(view, wallet) /\ CanExchangeOf(view, wallet)) =>
        /\ Le(Mul(SubmittedDeposit(tx', view), Esc(view).price), CurrentFillAmountOf(view))
        /\ tx'.amount <= StrToNat(Esc(view).depositRemainingRaw)]_vars

----------------------------------------------------------------------------
(* Typing into the fill input of a loaded partial-fill escrow.  The view   *)
(* starts loaded, with the balance fetched, on escrows and balances large  *)
(* enough for amounts of every magnitude band of formatDecimals.           *)
(***************************************************************************)

\* what is typed into the fill input
TypedFillInputs ==
    {<<"1">>, <<"3">>, <<"0", ".", "5">>, <<"1", ".", "2", "5">>, <<"1", "2", ".", "5">>,
     <<"1", "5", "0">>, <<"1", "0", "0", ".", "2", "5">>, <<"1", "0", "0", "0">>}

\* the taker's balances of the request token
FillBalances == {Num(1), Num(200), Num(2000)}

\* partial-fill escrows with little and with much left
FillAccounts ==
    {[DefaultAccount EXCEPT !.requestDecimals = rd, !.price = p,
                            !.tokensDepositInit = r, !.tokensDepositRemaining = r] :
        rd \in {0, MaxDecimals}, p \in PriceChoices, r \in {120, 150000}}

\* the escrow and the balance have loaded for wallet A
FillInit ==
    /\ ServicesParked
    /\ ConvParked
    /\ StoreInit
    /\ CostParked
    /\ acct \in {<<a>> : a \in FillAccounts}
    /\ now = 1
    /\ wallet = "A"
    /\ \E balance \in FillBalances : view = LoadedView(acct[1], 1, "A", balance, "null")
    /\ loads = 0
    /\ balPending = FALSE
    /\ costPending = FALSE
    /\ exchange = "idle"
    /\ tx = NoTx

\* the view after typed has gone through v-model and updateFillAmountFromInput
\* and the watchers have run
AfterTyping(v, typed) ==
    FlushWatchers(v, UpdateFillAmountFromInputOf([v EXCEPT !.fillAmount = typed], typed))

\* v-model:fill-amount followed by @update-fill-amount-from-input
TypeFillAmount ==
    \E typed \in TypedFillInputs :
        /\ FillControlsOpen
        /\ view' = AfterTyping(view, typed)
        /\ UNCHANGED <<outsideDetail, acct, now, wallet, loads, balPending, costPending,
                       exchange, tx>>

FillNext ==
    \/ TypeFillAmount
    \/ SetFillPercentage

SpecFill == FillInit /\ [][FillNext]_vars

\* how many digits follow the decimal point of s
FractionDigits(s) == IF Includes(s, ".") THEN Len(s) - FirstIndex(s, ".") ELSE 0

\* typed is an amount of the request token, above 0 and within maxFillAmount
ValidFillInput(v, typed) ==
    /\ v.escrow # <<>>
    /\ Esc(v).allowPartialFill
    /\ ValidPattern(typed)
    /\ ~IsNaN(ParseFloat(typed))
    /\ FractionDigits(typed) <= Esc(v).requestDecimals
    /\ Gt(ParseFloat(typed), Zero)
    /\ Le(ParseFloat(typed), MaxFillAmountOf(v))

\* C27: when a valid amount a, 0 < a <= maxFillAmount, is typed into the
\* fill input of a partial-fill escrow, then after the input handler and the
\* watchers have run currentFillAmount is a.
C27_TypedAmountKept ==
    [][\A typed \in TypedFillInputs :
           (FillControlsOpen /\ ValidFillInput(view, typed) /\ view' = AfterTyping(view, typed))
               => CurrentFillAmountOf(view') = ParseFloat(typed)]_vars

----------------------------------------------------------------------------
(* loadEscrow across route changes: which escrow the detail view holds.    *)
(* An escrow is identified by its address; the fetch for an address can    *)
(* find the account, find nothing, or fail.                                *)
(***************************************************************************)

MaxLoads == 3

\* route.params.id: missing, not a public key, or the address of an escrow
RouteIds == {"", "not-a-key", "E1", "E2"}

\* new PublicKey(id) does not throw
IsPublicKey(id) == id \in {"E1", "E2"}

\* the component is set up for some route; onMounted has not run yet
RouteInit ==
    /\ ConvParked
    /\ DetailParked
    /\ StoreInit
    /\ CostParked
    /\ RegistryParked
    /\ RetryParked
    /\ LimiterParked
    /\ BalancesParked
    /\ rtMounted = FALSE
    /\ rtId \in RouteIds
    /\ rtEscrow = <<>>
    /\ rtError = "null"
    /\ rtLoading = TRUE
    /\ rtCalls = {}
    /\ rtSeq = 0

\* loadEscrow() up to its first await, for the route id
LoadEscrowSync(id) ==
    IF id = ""
    THEN /\ rtError' = "No escrow ID provided"
         /\ rtLoading' = FALSE
         /\ UNCHANGED <<rtCalls, rtSeq>>
    ELSE IF ~IsPublicKey(id)
    THEN /\ rtError' = "Invalid escrow ID format"
         /\ rtLoading' = FALSE
         /\ UNCHANGED <<rtCalls, rtSeq>>
    ELSE /\ rtLoading' = TRUE
         /\ rtError' = "null"
         /\ rtSeq' = rtSeq + 1
         /\ rtCalls' = rtCalls \cup {[seq |-> rtSeq + 1, id |-> id, stage |-> "fetch"]}

\* onMounted(() => loadEscrow())
Mounted ==
    /\ ~rtMounted
    /\ rtMounted' = TRUE
    /\ LoadEscrowSync(rtId)
    /\ UNCHANGED <<rtId, rtEscrow, outsideRoute>>

\* watch(() => route.params.id, () => loadEscrow())
RouteChanged ==
    \E id \in RouteIds \ {rtId} :
        /\ rtMounted
        /\ rtSeq < MaxLoads
        /\ rtId' = id
        /\ LoadEscrowSync(id)
        /\ UNCHANGED <<rtMounted, rtEscrow, outsideRoute>>

\* fetchEscrowByAddress resolves with null
FetchNotFound ==
    \E c \in rtCalls :
        /\ c.stage = "fetch"
        /\ rtError' = "Escrow not found"
        /\ rtEscrow' = <<>>
        /\ rtLoading' = FALSE
        /\ rtCalls' = rtCalls \ {c}
        /\ UNCHANGED <<rtMounted, rtId, rtSeq, outsideRoute>>

\* fetchEscrowByAddress rejects: catch and finally
FetchThrows ==
    \E c \in rtCalls :
        /\ c.stage = "fetch"
        /\ rtError' = "Failed to load escrow"
        /\ rtLoading' = FALSE
        /\ rtCalls' = rtCalls \ {c}
        /\ UNCHANGED <<rtMounted, rtId, rtEscrow, rtSeq, outsideRoute>>

\* fetchEscrowByAddress resolves with the account: the token infos are awaited
FetchFound ==
    \E c \in rtCalls :
        /\ c.stage = "fetch"
        /\ rtCalls' = (rtCalls \ {c}) \cup {[c EXCEPT !.stage = "tokens"]}
        /\ UNCHANGED <<rtMounted, rtId, rtEscrow, rtError, rtLoading, rtSeq, outsideRoute>>

\* the token infos arrive: escrow.value = { id: escrowPubkey.toString(), ... }; finally
TokenInfosFetched ==
    \E c \in rtCalls :
        /\ c.stage = "tokens"
        /\ rtEscrow' = <<c.id>>
        /\ rtLoading' = FALSE
        /\ rtCalls' = rtCalls \ {c}
        /\ UNCHANGED <<rtMounted, rtId, rtError, rtSeq, outsideRoute>>

RouteNext ==
    \/ Mounted
    \/ RouteChanged
    \/ FetchNotFound
    \/ FetchThrows
    \/ FetchFound
    \/ TokenInfosFetched

SpecRoute == RouteInit /\ [][RouteNext]_vars

\* C29: once every loadEscrow call has completed, the view holds no escrow
\* or the escrow of the current route id.
C29_HeldEscrowIsRouteEscrow ==
    (rtMounted /\ rtCalls = {}) => (rtEscrow = <<>> \/ rtEscrow[1] = rtId)

----------------------------------------------------------------------------
(* The Direct setting of the create form *)

\* a step in which handleCreateEscrow calls initializeEscrow
CallsInitializeEscrow == initCall' # <<>>

\* C28: a step taken with the Direct setting enabled does not call
\* initializeEscrow, or calls it with a recipient that is a valid address
\* other than the system program.
C28_DirectNeverPublic ==
    [][(settings.direct /\ CallsInitializeEscrow) =>
            /\ initCall'[1].recipient # "null"
            /\ initCall'[1].recipient \in PublicKeys \ {SYSTEM_PROGRAM}]_vars

----------------------------------------------------------------------------
(* RateLimiter of metaplex.js.  Every call of execute() pushes an entry and *)
(* calls processQueue(); a call of processQueue that passes its guard runs  *)
(* the loop, which waits on a timer or on the function it started.  The     *)
(* functions are numbered in the order of their execute() calls, and the    *)
(* promise returned by the k-th call is promise k.                          *)
(***************************************************************************)

MaxCalls == 3
RequestsPerSecond == 2

\* this.delay = 1000 / requestsPerSecond
LimiterDelay == 1000 \div RequestsPerSecond

\* Date.now() when the limiter is built: far more than one delay after 0
StartTime == 2 * LimiterDelay

\* the time until which functions are followed while they run
LastTick == StartTime + MaxTicks * TickMs

\* a promise that is not settled
Pending == [kind |-> "pending", by |-> 0]

LoopReturned == [pc |-> "returned", wake |-> 0, entry |-> <<>>]
LoopDone     == [pc |-> "done", wake |-> 0, entry |-> <<>>]
LoopCrashed  == [pc |-> "crashed", wake |-> 0, entry |-> <<>>]

\* a guard that lets a second loop start while one is processing
ReturnsOnEmptyQueueOnly(processing, queue) == queue = <<>>

\* if (this.processing || this.queue.length === 0) return
ProcessQueueReturns(processing, queue) == processing \/ queue = <<>>

\* a loop that stops after the function it has started
LoopNeverContinues(queue) == FALSE

\* while (this.queue.length > 0)
LoopContinues(queue) == queue # <<>>

\* const { fn, resolve, reject } = this.queue.shift();
\* this.lastRequestTime = Date.now(); await fn()
RunHead(queue, t) ==
    [loop |-> [pc |-> "run", wake |-> 0, entry |-> <<Head(queue)>>],
     queue |-> Tail(queue), last |-> t, started |-> <<[fn |-> Head(queue).fn, at |-> t]>>,
     processing |-> TRUE]

\* the loop from its condition to its next await, or to its end
Iterate(queue, t, last) ==
    IF ~LoopContinues(queue)
    THEN [loop |-> LoopDone, queue |-> queue, last |-> last, started |-> <<>>,
          processing |-> FALSE]
    ELSE IF t - last < LimiterDelay
    THEN [loop |-> [pc |-> "wait", wake |-> t + (LimiterDelay - (t - last)), entry |-> <<>>],
          queue |-> queue, last |-> last, started |-> <<>>, processing |-> TRUE]
    ELSE RunHead(queue, t)

\* new RateLimiter()
LimiterInit ==
    /\ ConvParked
    /\ DetailParked
    /\ StoreInit
    /\ CostParked
    /\ RegistryParked
    /\ RetryParked
    /\ RouteParked
    /\ BalancesParked
    /\ rlQueue = <<>>
    /\ rlProcessing = FALSE
    /\ rlLast = 0
    /\ rlClock = StartTime
    /\ rlLoops = <<>>
    /\ rlStarts = <<>>
    /\ rlSettled = [p \in 1..MaxCalls |-> Pending]

\* the parts of the limiter that one step of a loop sets
LimiterTakes(r) ==
    /\ rlQueue' = r.queue
    /\ rlLast' = r.last
    /\ rlStarts' = rlStarts \o r.started
    /\ rlProcessing' = r.processing

\* execute(fn): push, then processQueue() up to its first await
Execute ==
    /\ Len(rlLoops) < MaxCalls
    /\ LET id    == Len(rlLoops) + 1
           queue == Append(rlQueue, [fn |-> id, promise |-> id])
       IN  IF ProcessQueueReturns(rlProcessing, queue)
           THEN /\ rlQueue' = queue
                /\ rlLoops' = Append(rlLoops, LoopReturned)
                /\ UNCHANGED <<rlProcessing, rlLast, rlStarts>>
           ELSE LET r == Iterate(queue, rlClock, rlLast)
                IN  /\ LimiterTakes(r)
                    /\ rlLoops' = Append(rlLoops, r.loop)
    /\ UNCHANGED <<rlClock, rlSettled, outsideLimiter>>

\* the timer of a waiting loop fires: shift and call the function
TimerFires ==
    \E i \in 1..Len(rlLoops) :
        /\ rlLoops[i].pc = "wait"
        /\ rlClock >= rlLoops[i].wake
        /\ IF rlQueue = <<>>
           THEN \* destructuring undefined throws; the loop is gone
                /\ rlLoops' = [rlLoops EXCEPT ![i] = LoopCrashed]
                /\ UNCHANGED <<rlQueue, rlLast, rlStarts, rlProcessing>>
           ELSE LET r == RunHead(rlQueue, rlClock)
                IN  /\ LimiterTakes(r)
                    /\ rlLoops' = [rlLoops EXCEPT ![i] = r.loop]
        /\ UNCHANGED <<rlClock, rlSettled, outsideLimiter>>

\* the function a loop awaits settles; resolve(result) or reject(error) of
\* the same entry is called and the loop goes on
TaskSettles(i, kind) ==
    /\ rlLoops[i].pc = "run"
    /\ LET entry == rlLoops[i].entry[1]
           r     == Iterate(rlQueue, rlClock, rlLast)
       IN  /\ rlSettled' = [rlSettled EXCEPT ![entry.promise] = [kind |-> kind, by |-> entry.fn]]
           /\ LimiterTakes(r)
           /\ rlLoops' = [rlLoops EXCEPT ![i] = r.loop]
    /\ UNCHANGED <<rlClock, outsideLimiter>>

TaskResolves == \E i \in 1..Len(rlLoops) : TaskSettles(i, "resolved")

TaskRejects == \E i \in 1..Len(rlLoops) : TaskSettles(i, "rejected")

\* a loop waits for a timer that is not due yet
TimerPending == \E i \in 1..Len(rlLoops) : rlLoops[i].pc = "wait" /\ rlClock < rlLoops[i].wake

\* time passes
LimiterTick ==
    /\ rlClock < LastTick \/ TimerPending
    /\ rlClock' = rlClock + TickMs
    /\ UNCHANGED <<rlQueue, rlProcessing, rlLast, rlLoops, rlStarts, rlSettled, outsideLimiter>>

LimiterNext ==
    \/ Execute
    \/ TimerFires
    \/ TaskResolves
    \/ TaskRejects
    \/ LimiterTick

SpecLimiter == LimiterInit /\ [][LimiterNext]_vars

\* timers fire, time passes, and every function that was started terminates
SpecLimiterFair ==
    /\ SpecLimiter
    /\ WF_vars(TimerFires)
    /\ WF_vars(LimiterTick)
    /\ WF_vars(TaskResolves \/ TaskRejects)

\* the loops that await a function
InFlight == {i \in 1..Len(rlLoops) : rlLoops[i].pc = "run"}

\* the loops that have not ended
ActiveLoops == {i \in 1..Len(rlLoops) : rlLoops[i].pc \in {"wait", "run"}}

\* C24: at most one function is in flight; the functions start in the order
\* of their execute() calls; each starts at least `delay` ms after the start
\* of the one before.
C24_OneAtATimeInOrderSpaced ==
    /\ Cardinality(InFlight) <= 1
    /\ \A k \in 1..Len(rlStarts) : rlStarts[k].fn = k
    /\ \A k \in 2..Len(rlStarts) : rlStarts[k].at >= rlStarts[k - 1].at + LimiterDelay

\* three functions have started; the second was queued while the first ran
\* for longer than the delay, the third had to wait for the timer
C24_Witness ==
    /\ Len(rlStarts) = 3
    /\ rlLoops[2].pc = "returned"
    /\ rlStarts[2].at > rlStarts[1].at + LimiterDelay
    /\ rlStarts[3].at = rlStarts[2].at + LimiterDelay
    /\ rlLoops[1].pc = "run"

\* C25: every function handed to execute() is run and its promise settled,
\* by the outcome of that same function; a rejection does not stop the loop;
\* when no loop is left, processing is false and the queue is empty.
C25_EveryCallSettles ==
    /\ \A p \in 1..MaxCalls : (Len(rlLoops) >= p) ~> (rlSettled[p] # Pending)
    /\ [](\A p \in 1..MaxCalls : rlSettled[p] # Pending => rlSettled[p].by = p)
    /\ [](ActiveLoops = {} => (~rlProcessing /\ rlQueue = <<>>))

\* the first function rejected; the second, queued while the first ran, and
\* the third have settled; the limiter is idle again
C25_Witness ==
    /\ Len(rlLoops) = 3
    /\ rlLoops[2].pc = "returned"
    /\ rlSettled[1] = [kind |-> "rejected", by |-> 1]
    /\ rlSettled[2] # Pending
    /\ rlSettled[3] # Pending
    /\ ~rlProcessing
    /\ ActiveLoops = {}

----------------------------------------------------------------------------
(* useWalletBalances: the balance list across wallet changes.  A call of
   fetchBalances awaits two RPC requests, assigns balances.value and starts
   one metadata request per token; every metadata completion assigns
   balances.value again from the tokensWithMetadata array of its own call.
   The catch block of fetchBalances is not modelled: fetchSOLBalance and
   fetchSPLTokenBalances catch their own errors, so Promise.all does not
   reject. *)

MaxFetches == 2

NativeMint == "SOL"
SplMint == "SPL"

\* what fetchSOLBalance returns for call c when the request succeeds
SolBalance(c) == [mint |-> NativeMint, call |-> c, meta |-> FALSE]

\* the entry fetchSPLTokenBalances builds for a token account with a balance
SplBalance(c) == [mint |-> SplMint, call |-> c, meta |-> FALSE]

\* allBalances of call c: SOL first when its request succeeded, then the SPL
\* tokens with a non-zero balance (none or one)
AllBalances(c) ==
    {sol \o spl : sol \in {<<>>, <<SolBalance(c)>>},
                  spl \in {<<>>, <<SplBalance(c)>>}}

\* fetchAndUpdateTokenMetadata: the token with the metadata merged in, or the
\* token as it was when there is no metadata or the request failed
FetchAndUpdateTokenMetadata(token, found) ==
    IF found THEN [token EXCEPT !.meta = TRUE] ELSE token

\* a promise continuation is queued: it runs before any timer, network
\* completion or wallet event
MicrotaskQueued == \E i \in 1..Len(wbCalls) : wbCalls[i].then

\* fetchBalances up to its await
FetchBalancesSync(isConnected, pubKey) ==
    IF ~isConnected \/ pubKey = <<>>
    THEN /\ wbBalances' = <<>>
         /\ UNCHANGED <<wbLoading, wbCalls>>
    ELSE /\ wbLoading' = TRUE
         /\ wbCalls' = Append(wbCalls,
                [wallet |-> pubKey[1], pc |-> "rpc", tokensWithMetadata |-> <<>>,
                 waiting |-> {}, then |-> FALSE, timer |-> FALSE])
         /\ UNCHANGED wbBalances

\* the callback of watch([connected, publicKey])
WalletWatcher(isConnected, pubKey) ==
    IF isConnected /\ pubKey # <<>>
    THEN FetchBalancesSync(isConnected, pubKey)
    ELSE /\ wbBalances' = <<>>
         /\ UNCHANGED <<wbLoading, wbCalls>>

BalancesInit ==
    /\ ConvParked
    /\ DetailParked
    /\ StoreInit
    /\ CostParked
    /\ RegistryParked
    /\ RetryParked
    /\ RouteParked
    /\ LimiterParked
    /\ wbConnected = FALSE
    /\ wbPublicKey = <<>>
    /\ wbBalances = <<>>
    /\ wbLoading = FALSE
    /\ wbLoadingMetadata = FALSE
    /\ wbCalls = <<>>

\* a wallet connects, or the connected wallet changes its account
WalletConnects ==
    \E w \in Wallets :
        /\ ~MicrotaskQueued
        /\ wbPublicKey # <<w>>
        /\ Len(wbCalls) < MaxFetches
        /\ wbConnected' = TRUE
        /\ wbPublicKey' = <<w>>
        /\ WalletWatcher(TRUE, <<w>>)
        /\ UNCHANGED <<wbLoadingMetadata, outsideBalance>>

WalletDisconnects ==
    /\ ~MicrotaskQueued
    /\ wbConnected
    /\ wbConnected' = FALSE
    /\ wbPublicKey' = <<>>
    /\ WalletWatcher(FALSE, <<>>)
    /\ UNCHANGED <<wbLoadingMetadata, outsideBalance>>

\* fetchBalances called through the token store
RefreshBalances ==
    /\ ~MicrotaskQueued
    /\ Len(wbCalls) < MaxFetches
    /\ FetchBalancesSync(wbConnected, wbPublicKey)
    /\ UNCHANGED <<wbConnected, wbPublicKey, wbLoadingMetadata, outsideBalance>>

\* Promise.all resolves in call i: balances.value = allBalances, then
\* fetchAllTokenMetadata up to its return, then the finally block
BalancesFetched ==
    \E i \in 1..Len(wbCalls) :
        \E allBalances \in AllBalances(i) :
            /\ ~MicrotaskQueued
            /\ wbCalls[i].pc = "rpc"
            /\ wbBalances' = allBalances
            /\ wbLoading' = FALSE
            /\ IF Len(allBalances) > 0
               THEN /\ wbLoadingMetadata' = TRUE
                    /\ wbCalls' = [wbCalls EXCEPT ![i] =
                          [@ EXCEPT !.pc = "done",
                                    !.tokensWithMetadata = allBalances,
                                    !.waiting = 1..Len(allBalances),
                                    !.then = TRUE,
                                    !.timer = TRUE]]
               ELSE /\ wbCalls' = [wbCalls EXCEPT ![i].pc = "done"]
                    /\ UNCHANGED wbLoadingMetadata
            /\ UNCHANGED <<wbConnected, wbPublicKey, outsideBalance>>

\* fetchAllTokenMetadata(allBalances).then(...)
MetadataContinuation ==
    \E i \in 1..Len(wbCalls) :
        /\ wbCalls[i].then
        /\ wbBalances' = wbCalls[i].tokensWithMetadata
        /\ wbCalls' = [wbCalls EXCEPT ![i].then = FALSE]
        /\ UNCHANGED <<wbConnected, wbPublicKey, wbLoading, wbLoadingMetadata,
                       outsideBalance>>

\* the metadata request of token index of call i settles: the forEach
\* callback of fetchAllTokenMetadata resumes
TokenMetadataSettles ==
    \E i \in 1..Len(wbCalls) :
        \E index \in wbCalls[i].waiting, found \in BOOLEAN :
            LET tokensWithMetadata ==
                    [wbCalls[i].tokensWithMetadata EXCEPT
                        ![index] = FetchAndUpdateTokenMetadata(@, found)]
            IN  /\ ~MicrotaskQueued
                /\ wbCalls' = [wbCalls EXCEPT ![i] =
                      [@ EXCEPT !.tokensWithMetadata = tokensWithMetadata,
                                !.waiting = @ \ {index}]]
                /\ wbBalances' = tokensWithMetadata
                /\ UNCHANGED <<wbConnected, wbPublicKey, wbLoading,
                               wbLoadingMetadata, outsideBalance>>

\* the setTimeout of fetchAllTokenMetadata
MetadataTimerFires ==
    \E i \in 1..Len(wbCalls) :
        /\ ~MicrotaskQueued
        /\ wbCalls[i].timer
        /\ wbLoadingMetadata' = FALSE
        /\ wbCalls' = [wbCalls EXCEPT ![i].timer = FALSE]
        /\ UNCHANGED <<wbConnected, wbPublicKey, wbBalances, wbLoading,
                       outsideBalance>>

BalancesNext ==
    \/ WalletConnects
    \/ WalletDisconnects
    \/ RefreshBalances
    \/ BalancesFetched
    \/ MetadataContinuation
    \/ TokenMetadataSettles
    \/ MetadataTimerFires

SpecBalances == BalancesInit /\ [][BalancesNext]_vars

\* every balance and metadata request of every fetchBalances call completed
RequestsCompleted ==
    \A i \in 1..Len(wbCalls) :
        /\ wbCalls[i].pc = "done"
        /\ wbCalls[i].waiting = {}
        /\ ~wbCalls[i].then

\* a step in which a metadata request settles or the continuation of
\* fetchAllTokenMetadata runs
MetadataCompletes ==
    \E i \in 1..Len(wbCalls) :
        /\ wbCalls[i].pc = "done"
        /\ \/ wbCalls'[i].waiting # wbCalls[i].waiting
           \/ wbCalls[i].then /\ ~wbCalls'[i].then

\* balances is empty once the wallet is disconnected and nothing is in flight
EmptyOnceDisconnected ==
    (~wbConnected /\ RequestsCompleted) => wbBalances = <<>>

\* a metadata completion after the disconnect leaves the emptied balances empty
NoRepopulation ==
    (~wbConnected /\ MetadataCompletes /\ wbBalances = <<>>) => wbBalances' = <<>>

\* a metadata completion never replaces the list of a later fetchBalances
\* call by the list of an earlier one
NoOlderSnapshot ==
    MetadataCompletes =>
        \A a \in 1..Len(wbBalances), b \in 1..Len(wbBalances') :
            wbBalances'[b].call >= wbBalances[a].call

\* C30: once the wallet is disconnected and every in-flight balance and
\* metadata request has completed, balances is empty; a metadata completion
\* or the fetchAllTokenMetadata continuation that started before the
\* disconnect never puts the previous wallet's tokens back into balances, and
\* never overwrites a newer balance list with an older snapshot
C30_NoStaleBalances ==
    /\ []EmptyOnceDisconnected
    /\ [][NoRepopulation /\ NoOlderSnapshot]_vars

====
